---- MODULE Spec2Model ----
(***************************************************************************)
(* Authentication and account-security state machine of the events         *)
(* platform: AuthService (SignUp, SignIn, VerifyEmail) over the users and   *)
(* auth_credentials tables.  Every store call of a handler is one step of   *)
(* the calling process, so that handlers of different callers interleave    *)
(* exactly at the SQL statements.  Strings are sequences of one-character   *)
(* strings; time is in whole seconds.                                       *)
(***************************************************************************)
EXTENDS Integers, Sequences, FiniteSets, TLC

\* ------------------------------------------------------------------ bounds
NProcs == 3       \* callers (SpecRace runs them all)
NConc == 2        \* concurrent callers of SpecConc
MaxTicks == 1     \* clock advances per behaviour
MaxFailed == 6    \* a SignIn starts only while every counter is below this

\* --------------------------------------------------------------- constants
Minute == 60
BcryptCost == 12
MaxLoginAttempts == 5
AccountLockoutDuration == 15 * Minute
MinPasswordLength == 8
Hour == 60 * Minute
VerificationTokenExpiry == 24 * Hour
verificationTokenSecret == "email-verification-secret"
verificationTokenSeparator == "."

\* SQL NULL of a timestamp column: no instant (instants are >= 0)
NULL == 0 - 1

Procs == 1..NProcs
ConcProcs == 1..NConc
\* The caller of the sequential specifications.
OneCaller == {1}

\* ------------------------------------------------------------------ errors
Err(is, msg) == [is |-> is, msg |-> msg]
Nil == Err("nil", "")
ErrInvalidCredentials == Err("ErrInvalidCredentials", "invalid email or password")
ErrEmailNotVerified == Err("ErrEmailNotVerified", "email address not verified")
ErrAccountLocked == Err("ErrAccountLocked", "account is locked due to too many failed login attempts")
ErrEmailExists == Err("ErrEmailExists", "email address already registered")
ErrInvalidVerificationCode ==
    Err("ErrInvalidVerificationCode", "invalid or expired verification code")
ErrInvalidInput(msg) == Err("ErrInvalidInput", msg)
StoreError(msg) == Err("StoreError", msg)
HashError(msg) == Err("HashError", msg)

\* ----------------------------------------------------------------- strings
Empty == << >>
Space == " "
EmailA == <<"a", "@", "b", ".", "c", "o">>
EmailARaw == <<" ", "A", "@", "B", ".", "c", "o", " ">>
EmailB == <<"c", "@", "d", ".", "c", "o">>
PwGood == <<"p", "a", "s", "s", "w", "o", "r", "d">>
PwWrong == <<"d", "r", "o", "w", "s", "s", "a", "p">>
PwShort == <<"s", "h", "o", "r", "t">>
PwSeven == <<"p", "a", "s", "s", "w", "o", "r">>
\* A character outside ASCII takes two bytes in UTF-8; len() counts bytes.
EAcute == "U+00E9"
PwAccents == <<EAcute, EAcute, EAcute, EAcute>>
NameRaw == <<" ", "B", " ">>
NameBlank == <<" ">>

LowerChar(c) ==
    CASE c = "A" -> "a"
      [] c = "B" -> "b"
      [] OTHER -> c

\* Variant: letter case is kept.
ToLower_KeepsCase(s) == s

ToLower(s) == [i \in 1..Len(s) |-> LowerChar(s[i])]

RECURSIVE TrimLeft(_)
TrimLeft(s) == IF s # Empty /\ Head(s) = Space THEN TrimLeft(Tail(s)) ELSE s

RECURSIVE TrimRight(_)
TrimRight(s) ==
    IF s # Empty /\ s[Len(s)] = Space THEN TrimRight(SubSeq(s, 1, Len(s) - 1)) ELSE s

TrimSpace(s) == TrimRight(TrimLeft(s))

NormalizeEmail(s) == TrimSpace(ToLower(s))

Letters == {"a", "b", "c", "d", "o", "p", "r", "s", "w", "h", "t", "A", "B"}
Digits == {"1"}
LocalChars == Letters \cup Digits \cup {".", "_", "%", "+", "-"}
DomainChars == Letters \cup Digits \cup {".", "-"}

AllIn(s, lo, hi, cs) == \A k \in lo..hi : s[k] \in cs

\* ^[a-zA-Z0-9._%+-]+@[a-zA-Z0-9.-]+\.[a-zA-Z]{2,}$
EmailRegexMatch(s) ==
    \E i \in 1..Len(s) : \E j \in 1..Len(s) :
        /\ s[i] = "@"
        /\ s[j] = "."
        /\ i >= 2
        /\ j >= i + 2
        /\ Len(s) >= j + 2
        /\ AllIn(s, 1, i - 1, LocalChars)
        /\ AllIn(s, i + 1, j - 1, DomainChars)
        /\ AllIn(s, j + 1, Len(s), Letters)

\* ------------------------------------------------------------------ bcrypt
Utf8Width(c) == IF c = EAcute THEN 2 ELSE 1

RECURSIVE ByteLen(_)
ByteLen(s) == IF s = Empty THEN 0 ELSE Utf8Width(Head(s)) + ByteLen(Tail(s))

\* bcrypt.GenerateFromPassword returns ErrPasswordTooLong above this many bytes.
BcryptMaxPassword == 72
PasswordTooLong(pw) == ByteLen(pw) > BcryptMaxPassword
PwLong == [i \in 1..(BcryptMaxPassword + 1) |-> "x"]

GenerateFromPassword(pw, cost) == [alg |-> "bcrypt", cost |-> cost, pw |-> pw]
CompareHashAndPassword(hash, pw) == hash.pw = pw

\* ------------------------------------------------------- decimal integers
DigitChars == <<"0", "1", "2", "3", "4", "5", "6", "7", "8", "9">>

\* fmt.Sprintf("%d", n) for n >= 0
RECURSIVE FormatInt(_)
FormatInt(n) ==
    IF n < 10 THEN <<DigitChars[n + 1]>>
    ELSE Append(FormatInt(n \div 10), DigitChars[(n % 10) + 1])

IsDigit(c) == \E d \in 1..10 : DigitChars[d] = c
DigitValue(c) == (CHOOSE d \in 1..10 : DigitChars[d] = c) - 1

RECURSIVE DigitsValue(_)
DigitsValue(s) ==
    IF s = Empty THEN 0
    ELSE 10 * DigitsValue(SubSeq(s, 1, Len(s) - 1)) + DigitValue(s[Len(s)])

\* strconv.ParseInt(s, 10, 64): an optional sign, then one or more digits
ParseInt(s) ==
    LET signed == s # Empty /\ s[1] \in {"+", "-"}
        digits == IF signed THEN Tail(s) ELSE s
    IN  IF digits = Empty \/ \E k \in 1..Len(digits) : ~IsDigit(digits[k])
        THEN [ok |-> FALSE, value |-> 0]
        ELSE [ok |-> TRUE,
              value |-> IF signed /\ s[1] = "-" THEN 0 - DigitsValue(digits)
                        ELSE DigitsValue(digits)]

\* strings.Split(s, sep) for a one-character separator
RECURSIVE Split(_, _)
Split(s, sep) ==
    IF \A k \in 1..Len(s) : s[k] # sep THEN <<s>>
    ELSE LET k == CHOOSE j \in 1..Len(s) :
                      s[j] = sep /\ \A m \in 1..(j - 1) : s[m] # sep
         IN  <<SubSeq(s, 1, k - 1)>> \o Split(SubSeq(s, k + 1, Len(s)), sep)

\* ------------------------------------------------------ verification token
\* A token is held as its fields between the separators.  A base64url text
\* holds the bytes it encodes; a text that is no base64url does not decode.
Base64Encode(bytes) == [b64 |-> bytes]
IsBase64(seg) == DOMAIN seg = {"b64"}
Base64Decode(seg) == seg.b64
NotBase64 == [raw |-> "!"]

\* HMAC-SHA256 under a key: a digest the bytes and the key determine.
HmacSha256(key, bytes) == [hmac |-> bytes, key |-> key]

\* ------------------------------------------------------------------- state
VARIABLES
    now,                \* the clock, seconds
    ticks,              \* clock advances so far
    faulty,             \* whether store calls may fail in this behaviour
    users,              \* users table: sequence of rows, id = index
    auth_credentials,   \* auth_credentials table: user_id -> row
    events,             \* events table: sequence of rows, id = index
    pc,                 \* per caller: position in its handler
    op,                 \* per caller: the operation it runs
    input,              \* per caller: the input of the call
    email,              \* per caller: normalized email
    user,               \* per caller: user row read or created
    creds,              \* per caller: credential row read
    ret,                \* per caller: returned error and result
    compared,           \* per caller: bcrypt comparison performed in this call
    path,               \* per caller: the branch that decided the call
    pre,                \* per caller: auth_credentials when the call started
    mismatches,         \* per user id: failed comparisons since the last reset
    attempts            \* per user id: failed comparisons since the last reset or lock

vars == <<now, ticks, faulty, users, auth_credentials, events, pc, op, input,
          email, user, creds, ret, compared, path, pre, mismatches, attempts>>

store == <<users, auth_credentials>>
\* What no authentication handler writes.
fixed == <<faulty, events>>
locals == <<input, email, user, creds, ret, compared, path, pre>>
ghosts == <<mismatches, attempts>>
clock == <<now, ticks>>

NoHash == [alg |-> "", cost |-> 0, pw |-> Empty]
NoUser == [id |-> 0, email |-> Empty, first_name |-> Empty, last_name |-> Empty,
           role |-> "", deleted_at |-> NULL]
NoCreds == [user_id |-> 0, password_hash |-> NoHash, email_verified_at |-> NULL,
            last_login_at |-> NULL, failed_login_attempts |-> 0,
            locked_until |-> NULL]
NoInput == [Email |-> Empty, Password |-> Empty, RememberMe |-> FALSE,
            FirstName |-> Empty, LastName |-> Empty, UserID |-> 0,
            Token |-> Empty]
NoResult == [User |-> NoUser, RememberMe |-> FALSE]
NoRet == [err |-> Nil, result |-> NoResult]

\* Outcomes of a store call: it fails only in behaviours with store faults.
StoreFails == IF faulty THEN {FALSE, TRUE} ELSE {FALSE}

\* ------------------------------------------------------------- SQL queries
UserIds == 1..Len(users)

\* Variant: the lookup also returns soft-deleted rows.
GetUserByEmail_WithDeleted(e) == {i \in UserIds : users[i].email = e}

\* SELECT * FROM users WHERE email = $1 AND deleted_at IS NULL LIMIT 1
GetUserByEmail(e) ==
    {i \in UserIds : users[i].email = e /\ users[i].deleted_at = NULL}

\* Variant: the users table has no unique constraint on the email.
EmailTaken_NoConstraint(e) == FALSE

\* INSERT INTO users (...) VALUES (...) RETURNING *; email is UNIQUE
EmailTaken(e) == \E i \in UserIds : users[i].email = e

\* Variant: the role of the row is not the one passed in.
CreateUser_Organizer(e, first, last, role) ==
    [id |-> Len(users) + 1, email |-> e, first_name |-> first, last_name |-> last,
     role |-> "organizer", deleted_at |-> NULL]

CreateUser(e, first, last, role) ==
    [id |-> Len(users) + 1, email |-> e, first_name |-> first, last_name |-> last,
     role |-> role, deleted_at |-> NULL]

\* INSERT INTO auth_credentials (user_id, password_hash) VALUES ($1, $2)
CreateAuthCredentials(id, hash) ==
    [NoCreds EXCEPT !.user_id = id, !.password_hash = hash]

\* SELECT * FROM auth_credentials WHERE user_id = $1 ... LIMIT 1
GetAuthCredentialsByUserID(id) == {i \in DOMAIN auth_credentials : i = id}

\* Variant: the lock is left in place.
UpdateLastLogin_KeepsLock(id) ==
    [i \in DOMAIN auth_credentials |->
        IF i = id
        THEN [auth_credentials[i] EXCEPT !.last_login_at = now,
                                         !.failed_login_attempts = 0]
        ELSE auth_credentials[i]]

\* UPDATE auth_credentials SET last_login_at = NOW(), failed_login_attempts = 0,
\*   locked_until = NULL WHERE user_id = $1
UpdateLastLogin(id) ==
    [i \in DOMAIN auth_credentials |->
        IF i = id
        THEN [auth_credentials[i] EXCEPT !.last_login_at = now,
                                         !.failed_login_attempts = 0,
                                         !.locked_until = NULL]
        ELSE auth_credentials[i]]

\* UPDATE auth_credentials SET failed_login_attempts = failed_login_attempts + 1
IncrementFailedLoginAttempts(id) ==
    [i \in DOMAIN auth_credentials |->
        IF i = id
        THEN [auth_credentials[i] EXCEPT !.failed_login_attempts = @ + 1]
        ELSE auth_credentials[i]]

\* UPDATE auth_credentials SET locked_until = $2 WHERE user_id = $1
LockAccount(id, lockUntil) ==
    [i \in DOMAIN auth_credentials |->
        IF i = id
        THEN [auth_credentials[i] EXCEPT !.locked_until = lockUntil]
        ELSE auth_credentials[i]]

\* Variant: the comparison with NOW() turned around.
IsAccountLocked_Inverted(id) ==
    IF auth_credentials[id].locked_until = NULL THEN FALSE
    ELSE IF auth_credentials[id].locked_until < now THEN TRUE
    ELSE FALSE

\* Variant: a lock never expires.
IsAccountLocked_Forever(id) ==
    IF auth_credentials[id].locked_until = NULL THEN FALSE
    ELSE TRUE

\* SELECT CASE WHEN locked_until IS NULL THEN false
\*             WHEN locked_until > NOW() THEN true ELSE false END
IsAccountLocked(id) ==
    IF auth_credentials[id].locked_until = NULL THEN FALSE
    ELSE IF auth_credentials[id].locked_until > now THEN TRUE
    ELSE FALSE

\* Variant: verifying also clears the failure count.
VerifyEmail_Resets(id) ==
    [i \in DOMAIN auth_credentials |->
        IF i = id
        THEN [auth_credentials[i] EXCEPT !.email_verified_at = now,
                                         !.failed_login_attempts = 0]
        ELSE auth_credentials[i]]

\* UPDATE auth_credentials SET email_verified_at = NOW() WHERE user_id = $1
VerifyEmail(id) ==
    [i \in DOMAIN auth_credentials |->
        IF i = id
        THEN [auth_credentials[i] EXCEPT !.email_verified_at = now]
        ELSE auth_credentials[i]]

\* ------------------------------------------------------------- token codec
\* auth.go 271-284: the token issued at the current time
generateVerificationToken(userID) ==
    LET expiry == now + VerificationTokenExpiry
        payload == FormatInt(userID) \o <<verificationTokenSeparator>>
                       \o FormatInt(expiry)
        signature == Base64Encode(HmacSha256(verificationTokenSecret, payload))
    IN  <<Base64Encode(payload), signature>>

Invalid(reason) == [ok |-> FALSE, userID |-> 0, reason |-> reason]

\* Variant: the expiry is not looked at.
validateVerificationToken_NoExpiry(token) ==
    IF Len(token) # 2 THEN Invalid("invalid token format")
    ELSE IF ~IsBase64(token[1]) THEN Invalid("invalid token encoding")
    ELSE LET payload == Base64Decode(token[1])
             expectedSignature ==
                 Base64Encode(HmacSha256(verificationTokenSecret, payload))
             payloadParts == Split(payload, verificationTokenSeparator)
         IN  IF token[2] # expectedSignature
             THEN Invalid("invalid token signature")
             ELSE IF Len(payloadParts) # 2 THEN Invalid("invalid payload format")
             ELSE IF ~ParseInt(payloadParts[1]).ok
                  THEN Invalid("invalid user ID in token")
             ELSE IF ~ParseInt(payloadParts[2]).ok
                  THEN Invalid("invalid expiry in token")
             ELSE [ok |-> TRUE, userID |-> ParseInt(payloadParts[1]).value,
                   reason |-> ""]

\* Variant: the token expires at the instant of its expiry.
validateVerificationToken_ExpiresAtExpiry(token) ==
    IF Len(token) # 2 THEN Invalid("invalid token format")
    ELSE IF ~IsBase64(token[1]) THEN Invalid("invalid token encoding")
    ELSE LET payload == Base64Decode(token[1])
             expectedSignature ==
                 Base64Encode(HmacSha256(verificationTokenSecret, payload))
             payloadParts == Split(payload, verificationTokenSeparator)
         IN  IF token[2] # expectedSignature
             THEN Invalid("invalid token signature")
             ELSE IF Len(payloadParts) # 2 THEN Invalid("invalid payload format")
             ELSE IF ~ParseInt(payloadParts[1]).ok
                  THEN Invalid("invalid user ID in token")
             ELSE IF ~ParseInt(payloadParts[2]).ok
                  THEN Invalid("invalid expiry in token")
             ELSE IF now >= ParseInt(payloadParts[2]).value
                  THEN Invalid("token expired")
             ELSE [ok |-> TRUE, userID |-> ParseInt(payloadParts[1]).value,
                   reason |-> ""]

\* auth.go 287-333
validateVerificationToken(token) ==
    IF Len(token) # 2 THEN Invalid("invalid token format")
    ELSE IF ~IsBase64(token[1]) THEN Invalid("invalid token encoding")
    ELSE LET payload == Base64Decode(token[1])
             expectedSignature ==
                 Base64Encode(HmacSha256(verificationTokenSecret, payload))
             payloadParts == Split(payload, verificationTokenSeparator)
         IN  IF token[2] # expectedSignature
             THEN Invalid("invalid token signature")
             ELSE IF Len(payloadParts) # 2 THEN Invalid("invalid payload format")
             ELSE IF ~ParseInt(payloadParts[1]).ok
                  THEN Invalid("invalid user ID in token")
             ELSE IF ~ParseInt(payloadParts[2]).ok
                  THEN Invalid("invalid expiry in token")
             ELSE IF now > ParseInt(payloadParts[2]).value
                  THEN Invalid("token expired")
             ELSE [ok |-> TRUE, userID |-> ParseInt(payloadParts[1]).value,
                   reason |-> ""]

\* ----------------------------------------------------------------- helpers
Finish(p, branch, e, r) ==
    /\ pc' = [pc EXCEPT ![p] = "done"]
    /\ path' = [path EXCEPT ![p] = branch]
    /\ ret' = [ret EXCEPT ![p] = [err |-> e, result |-> r]]

Continue(p, label) ==
    /\ pc' = [pc EXCEPT ![p] = label]
    /\ UNCHANGED <<ret, path>>

Begin(p, o, in) ==
    /\ pc[p] = "idle"
    /\ op' = [op EXCEPT ![p] = o]
    /\ input' = [input EXCEPT ![p] = in]
    /\ pre' = [pre EXCEPT ![p] = auth_credentials]

\* ---------------------------------------------------------------- validate
\* Variant: the password is not checked.
SignInInputValidate_EmailOnly(i) ==
    IF i.Email = Empty THEN ErrInvalidInput("email is required") ELSE Nil

SignInInputValidate(i) ==
    IF i.Email = Empty THEN ErrInvalidInput("email is required")
    ELSE IF i.Password = Empty THEN ErrInvalidInput("password is required")
    ELSE Nil

SignUpInputValidate(i) ==
    IF i.Email = Empty THEN ErrInvalidInput("email is required")
    ELSE IF ~EmailRegexMatch(TrimSpace(ToLower(i.Email)))
         THEN ErrInvalidInput("invalid email format")
    ELSE IF i.Password = Empty THEN ErrInvalidInput("password is required")
    ELSE IF ByteLen(i.Password) < MinPasswordLength
         THEN ErrInvalidInput("password must be at least 8 characters")
    ELSE IF TrimSpace(i.FirstName) = Empty
         THEN ErrInvalidInput("first name is required")
    ELSE IF TrimSpace(i.LastName) = Empty
         THEN ErrInvalidInput("last name is required")
    ELSE Nil

\* ------------------------------------------------------------------ SignIn
SignInInputs(emails, passwords, flags) ==
    {[NoInput EXCEPT !.Email = e, !.Password = w, !.RememberMe = r] :
        e \in emails, w \in passwords, r \in flags}

\* No counter is at the model's bound.
BelowMaxFailed ==
    \A i \in DOMAIN auth_credentials :
        /\ auth_credentials[i].failed_login_attempts < MaxFailed
        /\ attempts[i] < MaxFailed

\* auth.go 184-191: validate the input, normalize the email
SignIn(p, inputs) ==
    \E in \in inputs :
        /\ BelowMaxFailed
        /\ Begin(p, "SignIn", in)
        /\ IF SignInInputValidate(in) # Nil
           THEN /\ Finish(p, "invalid_input", SignInInputValidate(in), NoResult)
                /\ UNCHANGED email
           ELSE /\ Continue(p, "SignIn_GetUserByEmail")
                /\ email' = [email EXCEPT ![p] = TrimSpace(ToLower(in.Email))]
        /\ UNCHANGED <<clock, fixed, store, user, creds, compared, ghosts>>

\* Variant: every lookup error is reported as a credentials error.
GetUserError_Masked(notFound) == ErrInvalidCredentials

\* auth.go 195-199: not-found becomes the generic credentials error
GetUserError(notFound) ==
    IF notFound THEN ErrInvalidCredentials ELSE StoreError("failed to get user")

\* Variant: not-found is not told apart from other store errors.
GetCredentialsError_Opaque(notFound) == StoreError("failed to get credentials")

\* auth.go 204-208
GetCredentialsError(notFound) ==
    IF notFound THEN ErrInvalidCredentials
    ELSE StoreError("failed to get credentials")

\* Variant: the verification check is skipped.
EmailVerified_Always(c) == TRUE

\* auth.go 241: creds.EmailVerifiedAt.Valid
EmailVerified(c) == c.email_verified_at # NULL

\* Variant: the flag of the input is not carried over.
AuthResult_NoRemember(u, in) == [User |-> u, RememberMe |-> FALSE]

\* auth.go 250-253
AuthResult(u, in) == [User |-> u, RememberMe |-> in.RememberMe]

\* auth.go 193-200
SignIn_GetUserByEmail(p) ==
    /\ pc[p] = "SignIn_GetUserByEmail"
    /\ \E fail \in StoreFails :
          IF fail
          THEN /\ Finish(p, "user_error", GetUserError(FALSE), NoResult)
               /\ UNCHANGED user
          ELSE IF GetUserByEmail(email[p]) = {}
          THEN /\ Finish(p, "user_not_found", GetUserError(TRUE), NoResult)
               /\ UNCHANGED user
          ELSE /\ \E i \in GetUserByEmail(email[p]) :
                     user' = [user EXCEPT ![p] = users[i]]
               /\ Continue(p, "SignIn_GetCredentialsByUserID")
    /\ UNCHANGED <<clock, fixed, store, op, input, email, creds, compared, pre,
                   ghosts>>

\* auth.go 202-209
SignIn_GetCredentialsByUserID(p) ==
    /\ pc[p] = "SignIn_GetCredentialsByUserID"
    /\ \E fail \in StoreFails :
          IF fail
          THEN /\ Finish(p, "creds_error", GetCredentialsError(FALSE), NoResult)
               /\ UNCHANGED creds
          ELSE IF GetAuthCredentialsByUserID(user[p].id) = {}
          THEN /\ Finish(p, "creds_not_found", GetCredentialsError(TRUE), NoResult)
               /\ UNCHANGED creds
          ELSE /\ creds' = [creds EXCEPT ![p] = auth_credentials[user[p].id]]
               /\ Continue(p, "SignIn_IsAccountLocked")
    /\ UNCHANGED <<clock, fixed, store, op, input, email, user, compared, pre,
                   ghosts>>

\* Variant: the answer of the lock check is not looked at.
SignIn_IsAccountLocked_Unheeded(p) ==
    /\ pc[p] = "SignIn_IsAccountLocked"
    /\ \E fail \in StoreFails :
          IF fail \/ user[p].id \notin DOMAIN auth_credentials
          THEN Finish(p, "lock_error",
                      StoreError("failed to check account lock status"), NoResult)
          ELSE Continue(p, "SignIn_CompareHashAndPassword")
    /\ UNCHANGED <<clock, fixed, store, op, input, email, user, creds, compared,
                   pre, ghosts>>

\* auth.go 211-218
SignIn_IsAccountLocked(p) ==
    /\ pc[p] = "SignIn_IsAccountLocked"
    /\ \E fail \in StoreFails :
          IF fail \/ user[p].id \notin DOMAIN auth_credentials
          THEN Finish(p, "lock_error",
                      StoreError("failed to check account lock status"), NoResult)
          ELSE IF IsAccountLocked(user[p].id)
          THEN Finish(p, "locked", ErrAccountLocked, NoResult)
          ELSE Continue(p, "SignIn_CompareHashAndPassword")
    /\ UNCHANGED <<clock, fixed, store, op, input, email, user, creds, compared,
                   pre, ghosts>>

\* Variant: a matching password resets the row before the verification check.
SignIn_CompareHashAndPassword_ResetFirst(p) ==
    /\ pc[p] = "SignIn_CompareHashAndPassword"
    /\ compared' = [compared EXCEPT ![p] = TRUE]
    /\ IF ~CompareHashAndPassword(creds[p].password_hash, input[p].Password)
       THEN /\ Continue(p, "SignIn_IncrementFailedAttempts")
            /\ attempts' = [attempts EXCEPT ![user[p].id] = @ + 1]
            /\ mismatches' = [mismatches EXCEPT ![user[p].id] = @ + 1]
            /\ UNCHANGED auth_credentials
       ELSE IF ~EmailVerified(creds[p])
       THEN /\ Finish(p, "unverified", ErrEmailNotVerified, NoResult)
            /\ auth_credentials' = UpdateLastLogin(user[p].id)
            /\ UNCHANGED ghosts
       ELSE /\ Continue(p, "SignIn_UpdateLastLogin")
            /\ UNCHANGED <<auth_credentials, ghosts>>
    /\ UNCHANGED <<clock, fixed, users, op, input, email, user, creds, pre>>

\* Variant: the email verification check comes before the comparison.
SignIn_CompareHashAndPassword_VerifyFirst(p) ==
    /\ pc[p] = "SignIn_CompareHashAndPassword"
    /\ IF ~EmailVerified(creds[p])
       THEN /\ Finish(p, "unverified", ErrEmailNotVerified, NoResult)
            /\ UNCHANGED <<ghosts, compared>>
       ELSE /\ compared' = [compared EXCEPT ![p] = TRUE]
            /\ IF ~CompareHashAndPassword(creds[p].password_hash, input[p].Password)
               THEN /\ Continue(p, "SignIn_IncrementFailedAttempts")
                    /\ attempts' = [attempts EXCEPT ![user[p].id] = @ + 1]
                    /\ mismatches' = [mismatches EXCEPT ![user[p].id] = @ + 1]
               ELSE /\ Continue(p, "SignIn_UpdateLastLogin")
                    /\ UNCHANGED ghosts
    /\ UNCHANGED <<clock, fixed, store, op, input, email, user, creds, pre>>

\* auth.go 220-222 and 240-243: compare, then the email verification check
SignIn_CompareHashAndPassword(p) ==
    /\ pc[p] = "SignIn_CompareHashAndPassword"
    /\ compared' = [compared EXCEPT ![p] = TRUE]
    /\ IF ~CompareHashAndPassword(creds[p].password_hash, input[p].Password)
       THEN /\ Continue(p, "SignIn_IncrementFailedAttempts")
            /\ attempts' = [attempts EXCEPT ![user[p].id] = @ + 1]
            /\ mismatches' = [mismatches EXCEPT ![user[p].id] = @ + 1]
       ELSE IF ~EmailVerified(creds[p])
       THEN /\ Finish(p, "unverified", ErrEmailNotVerified, NoResult)
            /\ UNCHANGED ghosts
       ELSE /\ Continue(p, "SignIn_UpdateLastLogin")
            /\ UNCHANGED ghosts
    /\ UNCHANGED <<clock, fixed, store, op, input, email, user, creds, pre>>

\* Variants of the lock threshold: strict comparison; one attempt early.
MaxAttemptsReached_Strict(c) == c.failed_login_attempts + 1 > MaxLoginAttempts

MaxAttemptsReached_Early(c) == c.failed_login_attempts + 1 >= MaxLoginAttempts - 1

\* Variant: only the attempt that makes the count equal to the maximum locks.
MaxAttemptsReached_Exact(c) == c.failed_login_attempts + 1 = MaxLoginAttempts

\* auth.go 229: the lock threshold, on the count read before the comparison
MaxAttemptsReached(c) == c.failed_login_attempts + 1 >= MaxLoginAttempts

\* Variant: the new count is computed from the row read earlier and written back.
SignIn_IncrementFailedAttempts_Stale(p) ==
    /\ pc[p] = "SignIn_IncrementFailedAttempts"
    /\ auth_credentials' =
          [auth_credentials EXCEPT ![user[p].id].failed_login_attempts =
              creds[p].failed_login_attempts + 1]
    /\ IF creds[p].failed_login_attempts + 1 >= MaxLoginAttempts
       THEN Continue(p, "SignIn_LockAccount")
       ELSE Finish(p, "mismatch", ErrInvalidCredentials, NoResult)
    /\ UNCHANGED <<clock, fixed, users, op, input, email, user, creds, compared,
                   pre, ghosts>>

\* auth.go 223-229 and 237
SignIn_IncrementFailedAttempts(p) ==
    /\ pc[p] = "SignIn_IncrementFailedAttempts"
    /\ \E fail \in StoreFails :
          auth_credentials' = IF fail THEN auth_credentials
                              ELSE IncrementFailedLoginAttempts(user[p].id)
    /\ IF MaxAttemptsReached(creds[p])
       THEN Continue(p, "SignIn_LockAccount")
       ELSE Finish(p, "mismatch", ErrInvalidCredentials, NoResult)
    /\ UNCHANGED <<clock, fixed, users, op, input, email, user, creds, compared,
                   pre, ghosts>>

\* Variant: a failed LockAccount is returned to the caller.
SignIn_LockAccount_Propagates(p) ==
    /\ pc[p] = "SignIn_LockAccount"
    /\ \E fail \in StoreFails :
          IF fail
          THEN /\ UNCHANGED <<auth_credentials, attempts>>
               /\ Finish(p, "lockout", StoreError("failed to lock account"), NoResult)
          ELSE /\ auth_credentials' =
                     LockAccount(user[p].id, now + AccountLockoutDuration)
               /\ attempts' = [attempts EXCEPT ![user[p].id] = 0]
               /\ Finish(p, "lockout", ErrAccountLocked, NoResult)
    /\ UNCHANGED <<clock, fixed, users, op, input, email, user, creds, compared,
                   pre, mismatches>>

\* auth.go 230-234
SignIn_LockAccount(p) ==
    /\ pc[p] = "SignIn_LockAccount"
    /\ \E fail \in StoreFails :
          IF fail
          THEN UNCHANGED <<auth_credentials, attempts>>
          ELSE /\ auth_credentials' =
                     LockAccount(user[p].id, now + AccountLockoutDuration)
               /\ attempts' = [attempts EXCEPT ![user[p].id] = 0]
    /\ Finish(p, "lockout", ErrAccountLocked, NoResult)
    /\ UNCHANGED <<clock, fixed, users, op, input, email, user, creds, compared,
                   pre, mismatches>>

\* auth.go 245-253
SignIn_UpdateLastLogin(p) ==
    /\ pc[p] = "SignIn_UpdateLastLogin"
    /\ \E fail \in StoreFails :
          IF fail
          THEN UNCHANGED <<auth_credentials, ghosts>>
          ELSE /\ auth_credentials' = UpdateLastLogin(user[p].id)
               /\ attempts' = [attempts EXCEPT ![user[p].id] = 0]
               /\ mismatches' = [mismatches EXCEPT ![user[p].id] = 0]
    /\ Finish(p, "ok", Nil, AuthResult(user[p], input[p]))
    /\ UNCHANGED <<clock, fixed, users, op, input, email, user, creds, compared,
                   pre>>

\* ------------------------------------------------------------------ SignUp
SignUpInputs(emails, passwords, firsts, lasts) ==
    {[NoInput EXCEPT !.Email = e, !.Password = w, !.FirstName = f, !.LastName = l] :
        e \in emails, w \in passwords, f \in firsts, l \in lasts}

\* auth.go 131-138: validate the input, normalize the email
SignUp(p, inputs) ==
    \E in \in inputs :
        /\ Begin(p, "SignUp", in)
        /\ IF SignUpInputValidate(in) # Nil
           THEN /\ Finish(p, "invalid_input", SignUpInputValidate(in), NoResult)
                /\ UNCHANGED email
           ELSE /\ Continue(p, "SignUp_GetUserByEmail")
                /\ email' = [email EXCEPT ![p] = TrimSpace(ToLower(in.Email))]
        /\ UNCHANGED <<clock, fixed, store, user, creds, compared, ghosts>>

\* Variant: the existing-email lookup is left to the insert.
SignUp_GetUserByEmail_NoCheck(p) ==
    /\ pc[p] = "SignUp_GetUserByEmail"
    /\ IF PasswordTooLong(input[p].Password)
       THEN Finish(p, "hash_error", HashError("failed to hash password"), NoResult)
       ELSE Continue(p, "SignUp_Create")
    /\ UNCHANGED <<clock, fixed, store, op, input, email, user, creds, compared,
                   pre, ghosts>>

\* auth.go 140-153: the email lookup, then the password hash
SignUp_GetUserByEmail(p) ==
    /\ pc[p] = "SignUp_GetUserByEmail"
    /\ \E fail \in StoreFails :
          IF fail
          THEN Finish(p, "user_error",
                      StoreError("failed to check email existence"), NoResult)
          ELSE IF GetUserByEmail(email[p]) # {}
          THEN Finish(p, "email_exists", ErrEmailExists, NoResult)
          ELSE IF PasswordTooLong(input[p].Password)
          THEN Finish(p, "hash_error", HashError("failed to hash password"),
                      NoResult)
          ELSE Continue(p, "SignUp_Create")
    /\ UNCHANGED <<clock, fixed, store, op, input, email, user, creds, compared,
                   pre, ghosts>>

\* auth.go 149-164: hash the password, then insert the user row
SignUp_Create(p) ==
    /\ pc[p] = "SignUp_Create"
    /\ \E fail \in StoreFails :
          IF fail \/ EmailTaken(email[p])
          THEN /\ Finish(p, "create_error", StoreError("failed to create user"),
                         NoResult)
               /\ UNCHANGED <<users, user, ghosts>>
          ELSE /\ users' = Append(users,
                     CreateUser(email[p], TrimSpace(input[p].FirstName),
                                TrimSpace(input[p].LastName), "entrant"))
               /\ user' = [user EXCEPT ![p] = users'[Len(users')]]
               /\ attempts' = attempts @@ (Len(users') :> 0)
               /\ mismatches' = mismatches @@ (Len(users') :> 0)
               /\ Continue(p, "SignUp_CreateCredentials")
    /\ UNCHANGED <<clock, fixed, auth_credentials, op, input, email, creds,
                   compared, pre>>

\* Variant: a failed CreateCredentials is logged and the result returned.
SignUp_CreateCredentials_Swallowed(p) ==
    /\ pc[p] = "SignUp_CreateCredentials"
    /\ \E fail \in StoreFails :
          auth_credentials' =
              IF fail \/ user[p].id \in DOMAIN auth_credentials
              THEN auth_credentials
              ELSE auth_credentials @@
                     (user[p].id :> CreateAuthCredentials(user[p].id,
                          GenerateFromPassword(input[p].Password, BcryptCost)))
    /\ Finish(p, "ok", Nil,
              [User |-> user[p],
               VerificationCode |-> generateVerificationToken(user[p].id)])
    /\ UNCHANGED <<clock, fixed, users, op, input, email, user, creds, compared,
                   pre, ghosts>>

\* auth.go 166-181
SignUp_CreateCredentials(p) ==
    /\ pc[p] = "SignUp_CreateCredentials"
    /\ \E fail \in StoreFails :
          IF fail \/ user[p].id \in DOMAIN auth_credentials
          THEN /\ Finish(p, "credentials_error",
                         StoreError("failed to create credentials"), NoResult)
               /\ UNCHANGED auth_credentials
          ELSE /\ auth_credentials' = auth_credentials @@
                     (user[p].id :> CreateAuthCredentials(user[p].id,
                          GenerateFromPassword(input[p].Password, BcryptCost)))
               /\ Finish(p, "ok", Nil,
                         [User |-> user[p],
                          VerificationCode |-> generateVerificationToken(user[p].id)])
    /\ UNCHANGED <<clock, fixed, users, op, input, email, user, creds, compared,
                   pre, ghosts>>

\* ------------------------------------------------------------- VerifyEmail
\* auth.go 256-258: one store call, the error of which is returned as it is
SvcVerifyEmail(p, ids) ==
    \E id \in ids : \E fail \in StoreFails :
        /\ Begin(p, "VerifyEmail", [NoInput EXCEPT !.UserID = id])
        /\ IF fail
           THEN /\ Finish(p, "verify_error", StoreError(""), NoResult)
                /\ UNCHANGED auth_credentials
           ELSE /\ Finish(p, "ok", Nil, NoResult)
                /\ auth_credentials' = VerifyEmail(id)
        /\ UNCHANGED <<clock, fixed, users, email, user, creds, compared, ghosts>>

\* Variant: the reason of the rejection is returned.
SvcVerifyEmailByToken_Leaky(p, tokens) ==
    \E token \in tokens : \E fail \in StoreFails :
        /\ Begin(p, "VerifyEmailByToken", [NoInput EXCEPT !.Token = token])
        /\ IF ~validateVerificationToken(token).ok
           THEN /\ Finish(p, "invalid_token",
                          Err("ErrInvalidVerificationCode",
                              validateVerificationToken(token).reason),
                          NoResult)
                /\ UNCHANGED auth_credentials
           ELSE IF fail
           THEN /\ Finish(p, "verify_error", StoreError(""), NoResult)
                /\ UNCHANGED auth_credentials
           ELSE /\ Finish(p, "ok", Nil, NoResult)
                /\ auth_credentials' =
                      VerifyEmail(validateVerificationToken(token).userID)
        /\ UNCHANGED <<clock, fixed, users, email, user, creds, compared, ghosts>>

\* Variant: a token is refused once the account it names is verified.
SvcVerifyEmailByToken_OneTime(p, tokens) ==
    \E token \in tokens : \E fail \in StoreFails :
        /\ Begin(p, "VerifyEmailByToken", [NoInput EXCEPT !.Token = token])
        /\ IF \/ ~validateVerificationToken(token).ok
              \/ auth_credentials[validateVerificationToken(token).userID]
                    .email_verified_at # NULL
           THEN /\ Finish(p, "invalid_token", ErrInvalidVerificationCode,
                          NoResult)
                /\ UNCHANGED auth_credentials
           ELSE IF fail
           THEN /\ Finish(p, "verify_error", StoreError(""), NoResult)
                /\ UNCHANGED auth_credentials
           ELSE /\ Finish(p, "ok", Nil, NoResult)
                /\ auth_credentials' =
                      VerifyEmail(validateVerificationToken(token).userID)
        /\ UNCHANGED <<clock, fixed, users, email, user, creds, compared, ghosts>>

\* auth.go 260-267
SvcVerifyEmailByToken(p, tokens) ==
    \E token \in tokens : \E fail \in StoreFails :
        /\ Begin(p, "VerifyEmailByToken", [NoInput EXCEPT !.Token = token])
        /\ IF ~validateVerificationToken(token).ok
           THEN /\ Finish(p, "invalid_token", ErrInvalidVerificationCode, NoResult)
                /\ UNCHANGED auth_credentials
           ELSE IF fail
           THEN /\ Finish(p, "verify_error", StoreError(""), NoResult)
                /\ UNCHANGED auth_credentials
           ELSE /\ Finish(p, "ok", Nil, NoResult)
                /\ auth_credentials' =
                      VerifyEmail(validateVerificationToken(token).userID)
        /\ UNCHANGED <<clock, fixed, users, email, user, creds, compared, ghosts>>

\* ------------------------------------------------------------ return, time
\* The handler returns to its caller; its locals are gone.
Return(p) ==
    /\ pc[p] = "done"
    /\ pc' = [pc EXCEPT ![p] = "idle"]
    /\ op' = [op EXCEPT ![p] = ""]
    /\ input' = [input EXCEPT ![p] = NoInput]
    /\ email' = [email EXCEPT ![p] = Empty]
    /\ user' = [user EXCEPT ![p] = NoUser]
    /\ creds' = [creds EXCEPT ![p] = NoCreds]
    /\ ret' = [ret EXCEPT ![p] = NoRet]
    /\ compared' = [compared EXCEPT ![p] = FALSE]
    /\ path' = [path EXCEPT ![p] = ""]
    /\ pre' = [pre EXCEPT ![p] = << >>]
    /\ UNCHANGED <<clock, fixed, store, ghosts>>

TickSteps ==
    {1, AccountLockoutDuration, Hour, VerificationTokenExpiry,
     VerificationTokenExpiry + Hour}

\* The clock has a resolution of one second, which no handler outlasts: it
\* advances between calls.
TickBy(steps) ==
    /\ ticks < MaxTicks
    /\ \A p \in Procs : pc[p] = "idle"
    /\ \E d \in steps : now' = now + d
    /\ ticks' = ticks + 1
    /\ UNCHANGED <<fixed, store, pc, op, locals, ghosts>>

Tick == TickBy(TickSteps)

\* ------------------------------------------------------------ soft delete
\* UPDATE users SET deleted_at = NOW() WHERE id = $1: the store's soft delete,
\* run between the calls of the service.
DeleteUser ==
    /\ \A p \in Procs : pc[p] = "idle"
    /\ \E id \in UserIds :
          /\ users[id].deleted_at = NULL
          /\ users' = [users EXCEPT ![id].deleted_at = now]
    /\ UNCHANGED <<clock, fixed, auth_credentials, pc, op, locals, ghosts>>

\* ------------------------------------------------------------------ events
\* repository/errors.go 6
ErrNotFound == Err("ErrNotFound", "resource not found")

\* The zero db.Event, returned next to an error.
NoEvent == [ID |-> 0, OrganisationID |-> 0, Name |-> Empty, Slug |-> Empty,
            Year |-> 0]

\* event.go 23-28
CreateEventInputs(orgs, names, slugs, years) ==
    [OrganisationID : orgs, Name : names, Slug : slugs, Year : years]

SlugLimit == 100
MinYear == 2025

\* event.go 31-48: the first failing check decides; len counts bytes
CreateEventInputValidate(i) ==
    IF i.Name = Empty THEN ErrInvalidInput("name is required")
    ELSE IF i.Slug = Empty THEN ErrInvalidInput("slug is required")
    ELSE IF ByteLen(i.Slug) > SlugLimit
    THEN ErrInvalidInput("slug must be 100 characters or less")
    ELSE IF i.OrganisationID <= 0
    THEN ErrInvalidInput("organisation_id must be positive")
    ELSE IF i.Year < MinYear THEN ErrInvalidInput("year must be 2025 or later")
    ELSE Nil

\* schema.sql 6: slug text NOT NULL UNIQUE
SlugTaken(slug) == \E k \in 1..Len(events) : events[k].Slug = slug

\* INSERT INTO events (organisation_id, name, slug, year) ... RETURNING *
NewEvent(i) ==
    [ID |-> Len(events) + 1, OrganisationID |-> i.OrganisationID,
     Name |-> i.Name, Slug |-> i.Slug, Year |-> i.Year]

\* event.go 70-81: validate, then one repository call whose result is returned
CreateEvent(p, inputs) ==
    \E i \in inputs : \E fail \in StoreFails :
        /\ Begin(p, "CreateEvent", i)
        /\ IF CreateEventInputValidate(i) # Nil
           THEN /\ Finish(p, "invalid_input", CreateEventInputValidate(i), NoEvent)
                /\ UNCHANGED events
           ELSE IF fail \/ SlugTaken(i.Slug)
           THEN /\ Finish(p, "create_error", StoreError(""), NoEvent)
                /\ UNCHANGED events
           ELSE /\ Finish(p, "ok", Nil, NewEvent(i))
                /\ events' = Append(events, NewEvent(i))
        /\ UNCHANGED <<clock, faulty, store, email, user, creds, compared, ghosts>>

\* SELECT * from events WHERE slug = $1 LIMIT 1
GetEventBySlug(slug) ==
    events[CHOOSE k \in 1..Len(events) : events[k].Slug = slug]

\* event.go 63-68 and repository/event.go 32-41
GetEvent(p, slugs) ==
    \E slug \in slugs : \E fail \in StoreFails :
        /\ Begin(p, "GetEvent", [Slug |-> slug])
        /\ IF slug = Empty \/ ByteLen(slug) > SlugLimit
           THEN Finish(p, "invalid_input", ErrInvalidInput("invalid slug"), NoEvent)
           ELSE IF fail
           THEN Finish(p, "get_error", StoreError(""), NoEvent)
           ELSE IF ~SlugTaken(slug)
           THEN Finish(p, "not_found", ErrNotFound, NoEvent)
           ELSE Finish(p, "ok", Nil, GetEventBySlug(slug))
        /\ UNCHANGED <<clock, fixed, store, email, user, creds, compared, ghosts>>

\* ------------------------------------------------------------------ config
\* config.go 12-16
Development == "development"
Staging == "staging"
Production == "production"

\* config.go 148-153: an unset variable and an empty one both give the default
getEnv(environ, key, defaultValue) ==
    IF environ[key] # "" THEN environ[key] ELSE defaultValue

\* config.go 57-94: the Config that Load builds before validating it (of the
\* server, database and session settings only those that the environment or
\* the validation depends on). CSRF_KEY is read without a default.
NewConfig(environ) ==
    [Environment |-> getEnv(environ, "APP_ENV", Development),
     Database |-> [SSLMode |-> getEnv(environ, "DB_SSLMODE", "disable")],
     Session |->
        [SecureCookie |-> getEnv(environ, "APP_ENV", Development) = Production],
     CSRF |->
        [Key |-> environ.CSRF_KEY,
         SecureCookie |-> getEnv(environ, "APP_ENV", Development) # Development,
         TrustedOrigins |->
            CASE getEnv(environ, "APP_ENV", Development) = Development
                    -> <<"localhost:8080", "127.0.0.1:8080">>
              [] getEnv(environ, "APP_ENV", Development) = Staging
                    -> <<getEnv(environ, "STAGING_DOMAIN", "")>>
              [] getEnv(environ, "APP_ENV", Development) = Production
                    -> <<getEnv(environ, "PRODUCTION_DOMAIN", "")>>
              [] OTHER -> << >>]]

\* config.go 105-123
validate(c) ==
    IF ByteLen(c.CSRF.Key) # 32
    THEN Err("ConfigError", "CSRF_KEY must be exactly 32 bytes")
    ELSE IF c.Environment = Production /\ ~c.CSRF.SecureCookie
    THEN Err("ConfigError", "CSRF secure cookie must be enabled in production")
    ELSE IF c.Environment = Production /\ ~c.Session.SecureCookie
    THEN Err("ConfigError", "session secure cookie must be enabled in production")
    ELSE IF c.Environment = Production /\ c.Database.SSLMode = "disable"
    THEN Err("ConfigError", "database SSL should be enabled in production")
    ELSE Nil

\* config.go 56-102: no Config is returned next to an error
Load(p, environs) ==
    \E environ \in environs :
        /\ Begin(p, "Load", environ)
        /\ IF validate(NewConfig(environ)) # Nil
           THEN Finish(p, "invalid_config", validate(NewConfig(environ)), << >>)
           ELSE Finish(p, "ok", Nil, NewConfig(environ))
        /\ UNCHANGED <<clock, fixed, store, email, user, creds, compared, ghosts>>

\* ---------------------------------------------------------- specifications
InitLocals ==
    /\ pc = [p \in Procs |-> "idle"]
    /\ op = [p \in Procs |-> ""]
    /\ input = [p \in Procs |-> NoInput]
    /\ email = [p \in Procs |-> Empty]
    /\ user = [p \in Procs |-> NoUser]
    /\ creds = [p \in Procs |-> NoCreds]
    /\ ret = [p \in Procs |-> NoRet]
    /\ compared = [p \in Procs |-> FALSE]
    /\ path = [p \in Procs |-> ""]
    /\ pre = [p \in Procs |-> << >>]

\* The state after construction: empty tables.
InitEmpty ==
    /\ now = 0
    /\ ticks = 0
    /\ users = << >>
    /\ auth_credentials = << >>
    /\ events = << >>
    /\ attempts = << >>
    /\ mismatches = << >>
    /\ InitLocals

Init == InitEmpty /\ faulty = FALSE

UserIDs == {1, 2}
Names == {NameRaw, NameBlank}
AllSignUpInputs ==
    SignUpInputs({EmailA, EmailARaw, Empty, <<"a">>},
                 {PwGood, PwShort, PwSeven, PwAccents, PwLong, Empty}, Names, Names)
AllSignInInputs ==
    SignInInputs({EmailA, EmailARaw, EmailB, Empty}, {PwGood, PwWrong, Empty},
                 BOOLEAN)

\* Tokens a caller may present: issued ones, and damaged ones.
SignedToken(payload) ==
    <<Base64Encode(payload),
      Base64Encode(HmacSha256(verificationTokenSecret, payload))>>

IssuedToken(userID, issuedAt) ==
    SignedToken(FormatInt(userID) \o <<".">>
                    \o FormatInt(issuedAt + VerificationTokenExpiry))

IssueTimes == {0, 1}

\* A signed token of the issued layout with a given expiry.
ExpiringToken(userID, expiry) ==
    SignedToken(FormatInt(userID) \o <<".">> \o FormatInt(expiry))

ExpiryValues == {0} \cup {t + VerificationTokenExpiry : t \in IssueTimes}

AllTokens ==
    {ExpiringToken(u, e) : u \in UserIDs, e \in ExpiryValues}
    \cup {<<IssuedToken(1, 0)[1]>>,
          <<NotBase64, IssuedToken(1, 0)[2]>>,
          <<IssuedToken(1, 0)[1], IssuedToken(1, 1)[2]>>,
          <<IssuedToken(1, 0)[1], IssuedToken(1, 0)[2], IssuedToken(1, 0)[2]>>,
          SignedToken(<<"1">>),
          SignedToken(<<"x", ".", "9">>),
          SignedToken(<<"1", ".", "x">>)}

\* The steps of SignIn up to and including the mismatch branch (auth.go 194-238).
SignInFailureSteps(p) ==
    \/ SignIn_GetUserByEmail(p)
    \/ SignIn_GetCredentialsByUserID(p)
    \/ SignIn_IsAccountLocked(p)
    \/ SignIn_CompareHashAndPassword(p)
    \/ SignIn_IncrementFailedAttempts(p)
    \/ SignIn_LockAccount(p)

SignInSteps(p) == SignInFailureSteps(p) \/ SignIn_UpdateLastLogin(p)

SignUpSteps(p) ==
    \/ SignUp_GetUserByEmail(p)
    \/ SignUp_Create(p)
    \/ SignUp_CreateCredentials(p)

\* One caller: handlers run to completion one after the other.
Call(p) ==
    \/ SignUp(p, AllSignUpInputs)
    \/ SignUpSteps(p)
    \/ SignIn(p, AllSignInInputs)
    \/ SignInSteps(p)
    \/ SvcVerifyEmail(p, UserIDs)
    \/ SvcVerifyEmailByToken(p, AllTokens)
    \/ Return(p)

Next == (\E p \in OneCaller : Call(p)) \/ Tick

Spec == Init /\ [][Next]_vars

\* The same caller over a store whose calls may fail.
InitFault == InitEmpty /\ faulty = TRUE

FaultSignUpInputs == SignUpInputs({EmailA}, {PwGood}, {NameRaw}, {NameRaw})
FaultSignInInputs ==
    SignInInputs({EmailA, EmailB, Empty}, {PwGood, PwWrong, Empty}, {FALSE})

CallFault(p) ==
    \/ SignUp(p, FaultSignUpInputs)
    \/ SignUpSteps(p)
    \/ SignIn(p, FaultSignInInputs)
    \/ SignInSteps(p)
    \/ SvcVerifyEmail(p, UserIDs)
    \/ SvcVerifyEmailByToken(p, {IssuedToken(1, 0)})
    \/ Return(p)

NextFault == (\E p \in OneCaller : CallFault(p)) \/ Tick

SpecFault == InitFault /\ [][NextFault]_vars

\* A registered, verified account (SignUp, then VerifyEmail, at time 0).
RegisteredUser ==
    [id |-> 1, email |-> EmailA, first_name |-> TrimSpace(NameRaw),
     last_name |-> TrimSpace(NameRaw), role |-> "entrant", deleted_at |-> NULL]

RegisteredCreds ==
    [CreateAuthCredentials(1, GenerateFromPassword(PwGood, BcryptCost))
        EXCEPT !.email_verified_at = 0]

InitConc ==
    /\ now = 0
    /\ ticks = 0
    /\ faulty = FALSE
    /\ users = <<RegisteredUser>>
    /\ auth_credentials = (1 :> RegisteredCreds)
    /\ events = << >>
    /\ attempts = (1 :> 0)
    /\ mismatches = (1 :> 0)
    /\ InitLocals

WrongPasswordInputs == SignInInputs({EmailA}, {PwWrong}, {FALSE})

\* Concurrent callers signing in to the registered account with a wrong
\* password: the comparison never matches, so the success path is not taken.
Attempt(p) ==
    \/ SignIn(p, WrongPasswordInputs)
    \/ SignInFailureSteps(p)
    \/ Return(p)

NextConc == \E p \in ConcProcs : Attempt(p)

SpecConc == InitConc /\ [][NextConc]_vars

NextRace == \E p \in Procs : Attempt(p)

SpecRace == InitConc /\ [][NextRace]_vars

\* Registration, then sign-in with the registered email and password before
\* and after the email is verified. Caller 1 signs up and keeps its result,
\* caller 2 signs in, caller 3 verifies; the calls do not overlap.
ValidSignUpInputs ==
    SignUpInputs({EmailA, EmailARaw}, {PwGood, PwWrong, PwLong}, {NameRaw},
                 {NameRaw})

Registered == pc[1] = "done" /\ op[1] = "SignUp" /\ path[1] = "ok"

SameCredentials ==
    SignInInputs({input[1].Email}, {input[1].Password}, BOOLEAN)

NextJourney ==
    \/ users = << >> /\ SignUp(1, ValidSignUpInputs)
    \/ SignUpSteps(1)
    \/ Registered /\ pc[3] = "idle" /\ SignIn(2, SameCredentials)
    \/ SignIn_GetUserByEmail(2)
    \/ SignIn_GetCredentialsByUserID(2)
    \/ SignIn_IsAccountLocked(2)
    \/ SignIn_CompareHashAndPassword(2)
    \/ SignIn_UpdateLastLogin(2)
    \/ Return(2)
    \/ Registered /\ pc[2] = "idle" /\ SvcVerifyEmail(3, {ret[1].result.User.id})
    \/ Return(3)

SpecJourney == Init /\ [][NextJourney]_vars

\* Two registered, unverified accounts; one caller presents tokens, fails
\* sign-ins for the first account, and lets time pass.
RegisteredUserB ==
    [id |-> 2, email |-> EmailB, first_name |-> TrimSpace(NameRaw),
     last_name |-> TrimSpace(NameRaw), role |-> "entrant", deleted_at |-> NULL]

UnverifiedCreds(id) ==
    CreateAuthCredentials(id, GenerateFromPassword(PwGood, BcryptCost))

InitToken ==
    /\ now = 0
    /\ ticks = 0
    /\ faulty = FALSE
    /\ users = <<RegisteredUser, RegisteredUserB>>
    /\ auth_credentials = (1 :> UnverifiedCreds(1)) @@ (2 :> UnverifiedCreds(2))
    /\ events = << >>
    /\ attempts = (1 :> 0) @@ (2 :> 0)
    /\ mismatches = (1 :> 0) @@ (2 :> 0)
    /\ InitLocals

CallToken(p) ==
    \/ SvcVerifyEmailByToken(p, AllTokens)
    \/ SignIn(p, WrongPasswordInputs)
    \/ SignInFailureSteps(p)
    \/ Return(p)

NextToken == (\E p \in OneCaller : CallToken(p)) \/ Tick

SpecToken == InitToken /\ [][NextToken]_vars

\* Two callers present tokens for user 1 while wrong-password sign-ins run up
\* the failure count and lock the account; a caller that has finished keeps its
\* result while the other one calls.
ReplayTokens ==
    {IssuedToken(1, 0), ExpiringToken(1, 0),
     <<IssuedToken(1, 0)[1], IssuedToken(1, 1)[2]>>}

CallReplay(p) ==
    \/ SvcVerifyEmailByToken(p, ReplayTokens)
    \/ SignIn(p, WrongPasswordInputs)
    \/ SignInFailureSteps(p)
    \/ Return(p)

\* The two calls whose outcomes are compared.
TwoCallers == {1, 2}

NextReplay == (\E p \in TwoCallers : CallReplay(p)) \/ Tick

SpecReplay == InitToken /\ [][NextReplay]_vars

\* One caller creating and reading events, starting from an empty table.
\* Slugs: none, a short one, one of exactly the limit, one byte over it, and
\* one of fewer characters than the limit that takes more bytes.
Slugs ==
    {Empty, <<"n", "e", "w">>,
     [k \in 1..SlugLimit |-> "x"],
     [k \in 1..(SlugLimit + 1) |-> "x"],
     [k \in 1..(SlugLimit \div 2 + 1) |-> EAcute]}

\* A year of 0 is the zero value of an input that sets none.
AllCreateEventInputs ==
    CreateEventInputs({0 - 1, 0, 1, 2}, {Empty, <<"N">>}, Slugs,
                      {0, MinYear - 1, MinYear, MinYear + 1})

CallEvent(p) ==
    \/ CreateEvent(p, AllCreateEventInputs)
    \/ GetEvent(p, Slugs)
    \/ Return(p)

NextEvent == \E p \in OneCaller : CallEvent(p)

SpecEvent == Init /\ [][NextEvent]_vars

\* Two callers whose calls interleave step by step on the account of user 1,
\* unverified at first: caller 1 signs in with the right password, caller 2
\* signs in with a wrong one or verifies the email. Between calls the clock
\* advances to the end of a lock or beyond it.
NextMixed ==
    \/ SignIn(1, SignInInputs({EmailA}, {PwGood}, {FALSE}))
    \/ SignIn(2, WrongPasswordInputs)
    \/ SvcVerifyEmail(2, {1})
    \/ \E p \in TwoCallers : SignInSteps(p) \/ Return(p)
    \/ TickBy({AccountLockoutDuration, Hour})

SpecMixed == InitToken /\ [][NextMixed]_vars

\* Two sequences of wrong-password sign-ins side by side, call by call: caller 1
\* uses the email of the registered user, caller 2 an email no user has. The
\* k-th calls start together and are put down together, so that whenever both
\* callers hold a result it is the result of calls with the same number.
NextPair ==
    \/ pc[2] = "idle" /\ SignIn(1, WrongPasswordInputs)
    \/ pc[1] # "idle" /\ SignIn(2, SignInInputs({EmailB}, {PwWrong}, {FALSE}))
    \/ \E p \in TwoCallers : SignInFailureSteps(p)
    \/ pc[2] = "done" /\ Return(1)
    \/ pc[1] = "idle" /\ Return(2)
    \/ TickBy({AccountLockoutDuration, Hour})

SpecPair == InitConc /\ [][NextPair]_vars

\* Two callers registering the same address, written in two ways, on an empty
\* store; their calls interleave store call by store call.
NextSignUpRace ==
    \E p \in TwoCallers :
        SignUp(p, ValidSignUpInputs) \/ SignUpSteps(p) \/ Return(p)

SpecSignUpRace == Init /\ [][NextSignUpRace]_vars

\* One caller registering and signing in, on a store whose users can be
\* soft-deleted between the calls.
NextDeleted ==
    \/ \E p \in OneCaller :
          \/ SignUp(p, ValidSignUpInputs)
          \/ SignUpSteps(p)
          \/ SignIn(p, SignInInputs({EmailA}, {PwGood, PwWrong}, {FALSE}))
          \/ SignInFailureSteps(p)
          \/ Return(p)
    \/ DeleteUser
    \/ Tick

SpecDeleted == Init /\ [][NextDeleted]_vars

\* The process environments Load is started in: every named environment, none
\* and an unknown one; no key, a key of 32 bytes, one byte less and one more.
AllEnvirons ==
    [APP_ENV : {"", Development, Staging, Production, "test"},
     CSRF_KEY : {Empty} \cup {[k \in 1..n |-> "k"] : n \in 31..33},
     DB_SSLMODE : {"", "disable", "require"},
     STAGING_DOMAIN : {"", "staging.example.com"},
     PRODUCTION_DOMAIN : {"", "example.com"}]

NextConfig == \E p \in OneCaller : Load(p, AllEnvirons) \/ Return(p)

SpecConfig == Init /\ [][NextConfig]_vars

\* ------------------------------------------------------------- properties
\* What the caller sees and what the store held when the call started.
SignInDone(p) == pc[p] = "done" /\ op[p] = "SignIn"

\* The stored email an input email stands for.
Canon(e) == IF e \in {EmailA, EmailARaw} THEN EmailA ELSE e

Account(p) == {i \in UserIds : users[i].email = Canon(input[p].Email)}

HasAccount(p) == \E i \in Account(p) : i \in DOMAIN pre[p]

Id(p) == CHOOSE i \in Account(p) : TRUE

Before(p) == pre[p][Id(p)]
After(p) == auth_credentials[Id(p)]

NonEmptyInput(p) == input[p].Email # Empty /\ input[p].Password # Empty

\* null or not after the current time means unlocked
UnlockedBefore(p) == Before(p).locked_until = NULL \/ Before(p).locked_until <= now

WrongPassword(p) == Before(p).password_hash.pw # input[p].Password

\* A completed SignIn with a usable input for an account that was unlocked.
UnlockedSignIn(p) ==
    SignInDone(p) /\ NonEmptyInput(p) /\ HasAccount(p) /\ UnlockedBefore(p)

\* C1: an unlocked account with 4 failed attempts and a wrong password: the
\* count becomes 5, lockedUntil becomes now + 15 minutes, ErrAccountLocked.
C1_FifthFailureLocks ==
    \A p \in Procs :
        (UnlockedSignIn(p) /\ WrongPassword(p)
            /\ Before(p).failed_login_attempts = 4)
        => /\ After(p).failed_login_attempts = 5
           /\ After(p).locked_until = now + 15 * 60
           /\ ret[p].err = ErrAccountLocked

C1_Witness ==
    \E p \in Procs :
        /\ UnlockedSignIn(p) /\ WrongPassword(p)
        /\ Before(p).failed_login_attempts = 4
        /\ After(p).locked_until = 901

\* C2: an unlocked account with 0..3 failed attempts and a wrong password: the
\* count grows by one, no lock is set, ErrInvalidCredentials.
C2_EarlyFailureCounts ==
    \A p \in Procs :
        (UnlockedSignIn(p) /\ WrongPassword(p)
            /\ Before(p).failed_login_attempts \in 0..3)
        => /\ After(p).failed_login_attempts = Before(p).failed_login_attempts + 1
           /\ After(p).locked_until = NULL
           /\ ret[p].err = ErrInvalidCredentials

C2_Witness ==
    \E p \in Procs :
        /\ UnlockedSignIn(p) /\ WrongPassword(p)
        /\ Before(p).failed_login_attempts = 3
        /\ After(p).failed_login_attempts = 4

\* C3: lockedUntil after the current time: every SignIn, with the right or a
\* wrong password, returns ErrAccountLocked, compares no password and leaves
\* the credential rows as they were.
C3_LockedRejects ==
    \A p \in Procs :
        (SignInDone(p) /\ NonEmptyInput(p) /\ HasAccount(p) /\ ~UnlockedBefore(p))
        => /\ ret[p].err = ErrAccountLocked
           /\ ~compared[p]
           /\ auth_credentials = pre[p]

C3_Witness ==
    \E p \in Procs :
        /\ SignInDone(p) /\ NonEmptyInput(p) /\ HasAccount(p) /\ ~UnlockedBefore(p)
        /\ ~WrongPassword(p)
        /\ now > 0

\* C4: concurrent wrong-password SignIns: the failed comparisons between a
\* reset and the setting of lockedUntil exceed MaxLoginAttempts by at most two,
\* whatever the number of callers.
C4_AtMostTwoExtra ==
    \A i \in DOMAIN attempts : attempts[i] <= MaxLoginAttempts + 2

\* C5: concurrent SignIns that fail the comparison: every one of them adds
\* one to the stored count; no increment is lost.
Incrementing == {p \in Procs : pc[p] = "SignIn_IncrementFailedAttempts"}

C5_NoLostIncrement ==
    \A i \in DOMAIN auth_credentials :
        auth_credentials[i].failed_login_attempts + Cardinality(Incrementing)
            = mismatches[i]

C5_Witness ==
    /\ \A p \in ConcProcs : SignInDone(p) /\ creds[p].failed_login_attempts = 0
    /\ auth_credentials[1].failed_login_attempts = NConc

\* C6: the stored count goes from non-zero to 0 exactly when a SignIn for the
\* user succeeds: every successful SignIn leaves it at 0, and no other step
\* takes it from non-zero to 0.
Succeeds(p, i) ==
    /\ op[p] = "SignIn" /\ pc[p] # "done" /\ pc'[p] = "done"
    /\ ret'[p].err = Nil
    /\ user[p].id = i

ResetOnlyBySuccess ==
    \A i \in DOMAIN auth_credentials :
        (auth_credentials[i].failed_login_attempts > 0
            /\ auth_credentials'[i].failed_login_attempts = 0)
        => \E p \in Procs : Succeeds(p, i)

SuccessResets ==
    \A p \in Procs :
        (SignInDone(p) /\ ret[p].err = Nil)
        => auth_credentials[user[p].id].failed_login_attempts = 0

C7_ResultIsUserAndFlag ==
    \A p \in Procs :
        (UnlockedSignIn(p) /\ ~WrongPassword(p)
            /\ Before(p).email_verified_at # NULL)
        => /\ ret[p].err = Nil
           /\ ret[p].result.User = users[Id(p)]
           /\ ret[p].result.User.email = Canon(input[p].Email)
           /\ ret[p].result.RememberMe = input[p].RememberMe

C7_Witness ==
    \E p \in Procs :
        /\ UnlockedSignIn(p) /\ ~WrongPassword(p)
        /\ Before(p).email_verified_at # NULL
        /\ input[p].Email = EmailARaw
        /\ input[p].RememberMe

\* C8: after a successful SignIn the stored count is 0, lockedUntil is null
\* and last-login is the current time.
C8_SuccessBookkeeping ==
    \A p \in Procs :
        (SignInDone(p) /\ ret[p].err = Nil)
        => /\ After(p).failed_login_attempts = 0
           /\ After(p).locked_until = NULL
           /\ After(p).last_login_at = now

C8_Witness ==
    \E p \in Procs :
        /\ SignInDone(p) /\ ret[p].err = Nil
        /\ Before(p).failed_login_attempts >= 5
        /\ Before(p).locked_until # NULL
        /\ After(p).last_login_at > 0

\* C9: the right password for an unlocked account with no email-verified
\* timestamp yields ErrEmailNotVerified.
C9_UnverifiedRejected ==
    \A p \in Procs :
        (UnlockedSignIn(p) /\ ~WrongPassword(p)
            /\ Before(p).email_verified_at = NULL)
        => /\ ret[p].err = ErrEmailNotVerified
           /\ ret[p].result = NoResult

C9_Witness ==
    \E p \in Procs :
        /\ UnlockedSignIn(p) /\ ~WrongPassword(p)
        /\ Before(p).email_verified_at = NULL
        /\ Before(p).failed_login_attempts > 0

\* C10: no user for the email, a user without a credential row, and a wrong
\* password below the lock threshold all return the same ErrInvalidCredentials.
LookupFailed(p) == path[p] \in {"user_error", "creds_error", "lock_error"}

UnknownEmail(p) == Account(p) = {}
NoCredentialRow(p) == Account(p) # {} /\ ~HasAccount(p)
MismatchBelowThreshold(p) ==
    /\ HasAccount(p) /\ UnlockedBefore(p) /\ WrongPassword(p)
    /\ creds[p].failed_login_attempts + 1 < 5

C10_SameInvalidCredentials ==
    \A p \in Procs :
        (SignInDone(p) /\ NonEmptyInput(p) /\ ~LookupFailed(p)
            /\ (UnknownEmail(p) \/ NoCredentialRow(p) \/ MismatchBelowThreshold(p)))
        => ret[p] = [err |-> ErrInvalidCredentials, result |-> NoResult]

C10_Witness ==
    \E p \in Procs :
        /\ SignInDone(p) /\ NonEmptyInput(p) /\ ~LookupFailed(p)
        /\ NoCredentialRow(p)
        /\ input[p].Password = PwGood

\* C11: SignIn checks in the order input, user lookup, credential lookup, lock,
\* password, email verification, and returns the error of the first check that
\* fails, whatever the later checks would have said.
SignInOutcomes(p) ==
    IF ~NonEmptyInput(p)
    THEN {ErrInvalidInput("email is required"),
          ErrInvalidInput("password is required")}
    ELSE IF UnknownEmail(p) \/ NoCredentialRow(p) THEN {ErrInvalidCredentials}
    ELSE IF ~UnlockedBefore(p) THEN {ErrAccountLocked}
    ELSE IF WrongPassword(p) THEN {ErrInvalidCredentials, ErrAccountLocked}
    ELSE IF Before(p).email_verified_at = NULL THEN {ErrEmailNotVerified}
    ELSE {Nil}

C11_FirstFailingCheckDecides ==
    \A p \in Procs :
        (SignInDone(p) /\ ~LookupFailed(p)) => ret[p].err \in SignInOutcomes(p)

C11_Witness ==
    \E p \in Procs :
        /\ SignInDone(p) /\ ~LookupFailed(p) /\ NonEmptyInput(p) /\ HasAccount(p)
        /\ ~UnlockedBefore(p)
        /\ WrongPassword(p)
        /\ Before(p).email_verified_at = NULL
        /\ ret[p].err = ErrAccountLocked

\* C12: a user or credential lookup that fails with a store error other than
\* not-found makes SignIn return a non-nil error that is none of
\* ErrInvalidCredentials, ErrAccountLocked, ErrEmailNotVerified, ErrInvalidInput,
\* and no credential row is changed.
LookupStoreError(p) == path[p] \in {"user_error", "creds_error"}

C12_LookupErrorPropagates ==
    \A p \in Procs :
        (SignInDone(p) /\ LookupStoreError(p))
        => /\ ret[p].err # Nil
           /\ ret[p].err \notin
                 {ErrInvalidCredentials, ErrAccountLocked, ErrEmailNotVerified}
           /\ ret[p].err.is # ErrInvalidInput("").is
           /\ ret[p].result = NoResult
           /\ auth_credentials = pre[p]

C12_Witness ==
    \E p \in Procs :
        /\ SignInDone(p) /\ path[p] = "creds_error"
        /\ HasAccount(p) /\ UnlockedBefore(p) /\ WrongPassword(p)
        /\ ret[p].err = StoreError("failed to get credentials")

\* C13: a failed IncrementFailedAttempts, LockAccount or UpdateLastLogin never
\* changes what SignIn returns: a wrong password still gets ErrAccountLocked at
\* the threshold and ErrInvalidCredentials below it, and the right password for
\* a verified account still gets the AuthResult with a nil error.
PastLockCheck(p) ==
    /\ SignInDone(p) /\ NonEmptyInput(p) /\ ~LookupFailed(p)
    /\ HasAccount(p) /\ UnlockedBefore(p)

NoWriteTookEffect(p) == auth_credentials = pre[p]

C13_BookkeepingFailureKeepsOutcome ==
    \A p \in Procs :
        PastLockCheck(p)
        => IF WrongPassword(p)
           THEN ret[p] =
                  [err |-> IF Before(p).failed_login_attempts + 1 >= 5
                           THEN ErrAccountLocked ELSE ErrInvalidCredentials,
                   result |-> NoResult]
           ELSE Before(p).email_verified_at # NULL
                => ret[p] = [err |-> Nil,
                             result |-> [User |-> users[Id(p)],
                                         RememberMe |-> input[p].RememberMe]]

C13_Witness ==
    \E p \in Procs :
        /\ PastLockCheck(p) /\ WrongPassword(p)
        /\ Before(p).failed_login_attempts = 4
        /\ NoWriteTookEffect(p)
        /\ ret[p].err = ErrAccountLocked

\* C14: a SignIn with an empty email or an empty password returns an error
\* matching ErrInvalidInput straight from the validation: the call is never at
\* a lookup, the lock check, the comparison or a write, reads no row and
\* leaves the credential rows as they were.
EmptyField(p) == input[p].Email = Empty \/ input[p].Password = Empty

C14_EmptyInputRejectedFirst ==
    \A p \in Procs :
        (op[p] = "SignIn" /\ EmptyField(p))
        => /\ pc[p] = "done"
           /\ ret[p].err.is = ErrInvalidInput("").is
           /\ ret[p].result = NoResult
           /\ user[p] = NoUser /\ creds[p] = NoCreds
           /\ ~compared[p]
           /\ auth_credentials = pre[p]

C14_Witness ==
    \E p \in Procs :
        /\ SignInDone(p)
        /\ input[p].Email = EmailA /\ input[p].Password = Empty
        /\ HasAccount(p)
        /\ Before(p).failed_login_attempts > 0
        /\ ret[p].err = ErrInvalidInput("password is required")

\* C15: users are stored and looked up under the trimmed, lower-cased email:
\* " A@B.co " and "a@b.co" address one and the same user record, in SignUp and
\* in SignIn.
EitherForm(p) == input[p].Email \in {EmailA, EmailARaw}

C15_OneRecordPerNormalizedEmail ==
    /\ Len(users) <= 1
    /\ \A i \in UserIds : users[i].email = EmailA
    /\ \A p \in Procs :
          /\ (SignInDone(p) /\ EitherForm(p) /\ input[p].Password # Empty
                  /\ users # << >>)
             => user[p] = users[1]
          /\ (op[p] = "SignUp" /\ pc[p] = "done" /\ EitherForm(p)
                  /\ SignUpInputValidate(input[p]) = Nil
                  /\ ~PasswordTooLong(input[p].Password))
             => IF HasAccount(p)
                THEN ret[p].err = ErrEmailExists
                ELSE ret[p].err = Nil /\ ret[p].result.User = users[1]

C15_Witness ==
    \E p \in Procs :
        /\ op[p] = "SignUp" /\ pc[p] = "done"
        /\ input[p].Email = EmailARaw
        /\ ret[p].err = Nil
        /\ ret[p].result.User.email = EmailA

\* C16 as stated: a SignUp whose normalized email belongs to a registered user
\* returns ErrEmailExists whatever the password and names are, values that
\* fail validation included, and creates no user and no credential.
SignUpDone(p) == pc[p] = "done" /\ op[p] = "SignUp"

NothingCreated(p) ==
    /\ auth_credentials = pre[p]
    /\ Len(users) = Cardinality(DOMAIN pre[p])

C16_EmailExistsWhateverTheRest ==
    \A p \in Procs :
        (SignUpDone(p) /\ HasAccount(p))
        => ret[p].err = ErrEmailExists /\ NothingCreated(p)

\* C16 amended: a SignUp whose input passes validation and whose normalized
\* email belongs to a registered user returns ErrEmailExists whatever the
\* valid password and names are, and creates nothing; an input that fails
\* validation gets its ErrInvalidInput, registered email or not.
C16_EmailExistsForValidInput ==
    \A p \in Procs :
        (SignUpDone(p) /\ HasAccount(p))
        => /\ NothingCreated(p)
           /\ ret[p].result = NoResult
           /\ IF SignUpInputValidate(input[p]) = Nil
              THEN ret[p].err = ErrEmailExists
              ELSE ret[p].err = SignUpInputValidate(input[p])

C16_Witness ==
    \E p \in Procs :
        /\ SignUpDone(p) /\ HasAccount(p)
        /\ input[p].Email = EmailARaw
        /\ input[p].Password = PwLong
        /\ ret[p].err = ErrEmailExists

\* C17: a SignUp with valid input and an unused email succeeds; a SignIn with
\* the same email and password returns ErrEmailNotVerified before VerifyEmail
\* for the new user, and succeeds with that user after it.
C17_SignUpVerifySignIn ==
    /\ (SignUpDone(1) /\ SignUpInputValidate(input[1]) = Nil /\ pre[1] = << >>)
       => ret[1].err = Nil
    /\ SignInDone(2)
       => IF Before(2).email_verified_at = NULL
          THEN ret[2].err = ErrEmailNotVerified
          ELSE ret[2] = [err |-> Nil,
                         result |-> [User |-> ret[1].result.User,
                                     RememberMe |-> input[2].RememberMe]]

\* C18: when SignUp returns a result, the new user has its credential row,
\* bound to its id and created by this call; when the credential insert fails
\* after the user row was created, SignUp returns no result but an error that
\* is not ErrInvalidInput, not ErrEmailExists and not the error of a failed
\* user insert.
UserWithoutCredential(p) ==
    /\ SignUpDone(p)
    /\ user[p] # NoUser
    /\ user[p].id \notin DOMAIN auth_credentials

C18_CredentialOrDistinctError ==
    \A p \in Procs :
        /\ (SignUpDone(p) /\ ret[p].err = Nil)
           => /\ ret[p].result.User.id \in UserIds
              /\ users[ret[p].result.User.id] = ret[p].result.User
              /\ ret[p].result.User.id \in DOMAIN auth_credentials
              /\ ret[p].result.User.id \notin DOMAIN pre[p]
              /\ auth_credentials[ret[p].result.User.id].user_id
                    = ret[p].result.User.id
        /\ UserWithoutCredential(p)
           => /\ ret[p].result = NoResult
              /\ ret[p].err # Nil
              /\ ret[p].err.is # ErrInvalidInput("").is
              /\ ret[p].err # ErrEmailExists
              /\ ret[p].err # StoreError("failed to create user")

C18_Witness ==
    \E p \in Procs :
        /\ UserWithoutCredential(p)
        /\ users[user[p].id] = user[p]
        /\ ret[p].err = StoreError("failed to create credentials")

\* C19: every user row a SignUp creates, and every user a SignUp returns, has
\* role "entrant".
C19_SignUpCreatesEntrants ==
    /\ \A i \in UserIds : users[i].role = "entrant"
    /\ \A p \in Procs :
          (SignUpDone(p) /\ ret[p].err = Nil)
          => ret[p].result.User.role = "entrant"

C19_Witness ==
    \E p \in Procs :
        /\ SignUpDone(p) /\ ret[p].err = Nil
        /\ ret[p].result.User.id \in UserIds
        /\ users[ret[p].result.User.id].role = "entrant"

\* C20: a SignUp with a password of fewer than 8 characters (Len counts
\* characters, ByteLen bytes) returns an error matching ErrInvalidInput straight
\* from the validation: the call is never at a store step, and no user and no
\* credential is created.
C20_ShortPasswordRejectedFirst ==
    \A p \in Procs :
        (op[p] = "SignUp" /\ Len(input[p].Password) < 8)
        => /\ pc[p] = "done"
           /\ ret[p].err.is = ErrInvalidInput("").is
           /\ ret[p].result = NoResult
           /\ user[p] = NoUser
           /\ NothingCreated(p)

\* C21: VerifyEmail for a user whose credential is already verified succeeds
\* and leaves the stored email-verified timestamp as the first call set it.
VerifyEmailDone(p) == pc[p] = "done" /\ op[p] = "VerifyEmail"

AlreadyVerified(p) ==
    /\ input[p].UserID \in DOMAIN pre[p]
    /\ pre[p][input[p].UserID].email_verified_at # NULL

C21_VerifyEmailIdempotent ==
    \A p \in Procs :
        (VerifyEmailDone(p) /\ AlreadyVerified(p))
        => /\ ret[p].err = Nil
           /\ auth_credentials[input[p].UserID].email_verified_at
                 = pre[p][input[p].UserID].email_verified_at

\* C22: the token generated for user u at time T verifies exactly u when it
\* is presented at any time up to T + 24h, is rejected with
\* ErrInvalidVerificationCode after T + 24h, and is rejected when its
\* signature segment is not the HMAC of its payload.
TokenDone(p) == pc[p] = "done" /\ op[p] = "VerifyEmailByToken"

OtherRowsUnchanged(p, u) ==
    \A i \in DOMAIN auth_credentials : i # u => auth_credentials[i] = pre[p][i]

C22_TokenRoundTrip ==
    \A p \in Procs : \A u \in UserIDs : \A T \in IssueTimes :
        /\ (TokenDone(p) /\ input[p].Token = IssuedToken(u, T))
           => IF now <= T + 24 * 60 * 60
              THEN /\ ret[p].err = Nil
                   /\ auth_credentials[u].email_verified_at = now
                   /\ OtherRowsUnchanged(p, u)
              ELSE /\ ret[p].err = ErrInvalidVerificationCode
                   /\ auth_credentials = pre[p]
        /\ (TokenDone(p) /\ Len(input[p].Token) = 2
               /\ input[p].Token[1] = IssuedToken(u, T)[1]
               /\ input[p].Token[2] # IssuedToken(u, T)[2])
           => /\ ret[p].err = ErrInvalidVerificationCode
              /\ auth_credentials = pre[p]

C22_Witness ==
    \E p \in Procs :
        /\ TokenDone(p)
        /\ input[p].Token = IssuedToken(2, 0)
        /\ now = 25 * 60 * 60
        /\ ret[p].err = ErrInvalidVerificationCode

\* C23: a token is accepted if and only if its signature is the HMAC of its
\* payload and its encoded expiry is strictly after the current time; a
\* correctly signed token presented at the instant of its expiry is rejected.
C23_AcceptedIffSignedAndUnexpired ==
    \A p \in Procs : \A u \in UserIDs : \A e \in ExpiryValues :
        /\ (TokenDone(p) /\ input[p].Token = ExpiringToken(u, e))
           => (ret[p].err = Nil <=> e > now)
        /\ (TokenDone(p) /\ Len(input[p].Token) = 2
               /\ input[p].Token[1] = ExpiringToken(u, e)[1]
               /\ input[p].Token[2] # ExpiringToken(u, e)[2])
           => ret[p].err # Nil

\* C24: a correctly signed, well-formed token is rejected as expired exactly
\* when the current time is strictly after its encoded expiry; at the instant
\* of the expiry it is still accepted and the user of the token is verified.
C24_ExpiredStrictlyAfterExpiry ==
    \A p \in Procs : \A u \in UserIDs : \A e \in ExpiryValues :
        (TokenDone(p) /\ input[p].Token = ExpiringToken(u, e))
        => /\ ret[p].err = ErrInvalidVerificationCode <=> now > e
           /\ now <= e
              => /\ ret[p].err = Nil
                 /\ validateVerificationToken(input[p].Token).userID = u
                 /\ auth_credentials[u].email_verified_at = now

C24_Witness ==
    \E p \in Procs :
        /\ TokenDone(p)
        /\ input[p].Token = IssuedToken(1, 0)
        /\ now = 24 * 60 * 60
        /\ ret[p].err = Nil
        /\ auth_credentials[1].email_verified_at = now

\* C25: VerifyEmailByToken returns the one error ErrInvalidVerificationCode for
\* every invalid token (segment count, encoding, signature, payload fields,
\* expiry) and then writes nothing; for a valid token it verifies the
\* credential of the user id in the token and no other.
ValidNow(token) ==
    \E u \in UserIDs : \E e \in ExpiryValues :
        token = ExpiringToken(u, e) /\ now <= e

TokenUser(token) ==
    CHOOSE u \in UserIDs : \E e \in ExpiryValues : token = ExpiringToken(u, e)

C25_OneErrorNoWrite ==
    \A p \in Procs :
        TokenDone(p)
        => IF ValidNow(input[p].Token)
           THEN /\ ret[p].err = Nil
                /\ auth_credentials[TokenUser(input[p].Token)]
                      = [pre[p][TokenUser(input[p].Token)]
                            EXCEPT !.email_verified_at = now]
                /\ OtherRowsUnchanged(p, TokenUser(input[p].Token))
           ELSE /\ ret[p].err = ErrInvalidVerificationCode
                /\ auth_credentials = pre[p]

C25_Witness ==
    \E p \in Procs :
        /\ TokenDone(p)
        /\ input[p].Token = SignedToken(<<"x", ".", "9">>)
        /\ now < 9
        /\ ret[p].err = ErrInvalidVerificationCode
        /\ auth_credentials[1].failed_login_attempts > 0

\* C26: whether a verification token is accepted depends on the token and the
\* current time only: two calls that present the same token at the same time
\* have the same outcome whatever the store held when each of them ran, so an
\* unexpired token is accepted again after it was used, on a verified account
\* and while the account is locked.
C26_TokensStateless ==
    \A p \in Procs : \A q \in Procs :
        (TokenDone(p) /\ TokenDone(q) /\ input[p].Token = input[q].Token)
        => /\ ret[p].err = ret[q].err
           /\ ret[p].err = Nil <=> ValidNow(input[p].Token)

C26_Witness ==
    \E p \in Procs : \E q \in Procs :
        /\ TokenDone(p) /\ TokenDone(q)
        /\ input[p].Token = IssuedToken(1, 0)
        /\ input[q].Token = IssuedToken(1, 0)
        /\ pre[p][1].email_verified_at = NULL
        /\ pre[p][1].locked_until = NULL
        /\ pre[q][1].email_verified_at # NULL
        /\ pre[q][1].locked_until # NULL
        /\ pre[q][1].locked_until > now
        /\ ret[p].err = Nil
        /\ ret[q].err = Nil

\* C27: a lock expires on its own: once the current time is past lockedUntil,
\* a SignIn with the right password for the verified account succeeds and
\* clears the lock, although nothing unlocked the account in between (the
\* stored row still carries the lock time and the failure count).
LockExpired(p) ==
    /\ HasAccount(p)
    /\ Before(p).locked_until # NULL
    /\ Before(p).locked_until < now

C27_LockExpiresByItself ==
    \A p \in Procs :
        (SignInDone(p) /\ NonEmptyInput(p) /\ LockExpired(p)
            /\ ~WrongPassword(p) /\ Before(p).email_verified_at # NULL)
        => /\ Before(p).failed_login_attempts >= 5
           /\ ret[p].err = Nil
           /\ ret[p].result.User = users[Id(p)]
           /\ After(p).locked_until = NULL
           /\ After(p).failed_login_attempts = 0

C27_Witness ==
    \E p \in Procs :
        /\ SignInDone(p) /\ NonEmptyInput(p) /\ LockExpired(p)
        /\ ~WrongPassword(p) /\ Before(p).email_verified_at # NULL
        /\ Before(p).locked_until = 15 * 60
        /\ now = 60 * 60
        /\ ret[p].err = Nil

\* C28: CreateEvent accepts every input with a non-empty name, a non-empty
\* slug of at most 100 characters and a positive organisation id, no year
\* supplied: unless the repository fails, it returns without error the event
\* it stored, which carries the input's fields.
CreateEventDone(p) == pc[p] = "done" /\ op[p] = "CreateEvent"

AcceptableWithoutYear(i) ==
    /\ i.Name # Empty
    /\ i.Slug # Empty
    /\ Len(i.Slug) <= 100
    /\ i.OrganisationID > 0
    /\ i.Year = 0

C28_AcceptsInputWithoutYear ==
    \A p \in Procs :
        (CreateEventDone(p) /\ AcceptableWithoutYear(input[p])
            /\ path[p] # "create_error")
        => /\ ret[p].err = Nil
           /\ ret[p].result.ID \in 1..Len(events)
           /\ events[ret[p].result.ID] = ret[p].result
           /\ ret[p].result.Name = input[p].Name
           /\ ret[p].result.Slug = input[p].Slug
           /\ ret[p].result.OrganisationID = input[p].OrganisationID

\* C29: a configuration loaded for the staging environment has the session
\* secure-cookie flag set, as one loaded for production has; only one loaded
\* for development leaves it unset.
LoadDone(p) == pc[p] = "done" /\ op[p] = "Load" /\ ret[p].err = Nil

C29_StagingSessionCookieSecure ==
    \A p \in Procs :
        LoadDone(p)
        => /\ ret[p].result.Environment \in {Staging, Production}
               => ret[p].result.Session.SecureCookie
           /\ ret[p].result.Environment = Development
               => ~ret[p].result.Session.SecureCookie

\* C30: whatever the calls and however they interleave, a SignIn returns an
\* AuthResult only if in that call the user was found, its credential row was
\* found, the lock check said unlocked, the password matched the hash read and
\* the row read had the email-verified timestamp set.
ReturnsAuthResult(p) == SignInDone(p) /\ ret[p].err = Nil

SoundResult ==
    \A p \in Procs :
        ReturnsAuthResult(p)
        => /\ \E i \in UserIds : user[p] = users[i]
           /\ user[p].email = NormalizeEmail(input[p].Email)
           /\ creds[p] # NoCreds
           /\ creds[p].user_id = user[p].id
           /\ compared[p]
           /\ creds[p].password_hash.pw = input[p].Password
           /\ creds[p].email_verified_at # NULL
           /\ ret[p].result.User = user[p]

\* A call reaches the comparison only from a lock check that finds the account
\* unlocked, the last-login update only from a comparison, and the successful
\* return only from the last-login update.
SoundSteps ==
    \A p \in Procs :
        /\ (pc[p] # pc'[p] /\ pc'[p] = "SignIn_CompareHashAndPassword")
           => /\ pc[p] = "SignIn_IsAccountLocked"
              /\ auth_credentials[user[p].id].locked_until = NULL
                 \/ auth_credentials[user[p].id].locked_until <= now
        /\ (pc[p] # pc'[p] /\ pc'[p] = "SignIn_UpdateLastLogin")
           => pc[p] = "SignIn_CompareHashAndPassword"
        /\ (pc[p] # pc'[p] /\ pc'[p] = "SignIn_IsAccountLocked")
           => pc[p] = "SignIn_GetCredentialsByUserID"
        /\ (pc[p] # pc'[p] /\ pc'[p] = "done" /\ op[p] = "SignIn"
              /\ ret'[p].err = Nil)
           => pc[p] = "SignIn_UpdateLastLogin"

C30_AuthenticationSound == [][SoundSteps]_vars /\ []SoundResult

\* A sign-in succeeds although the account was locked by the other caller
\* after this call's lock check.
C30_Witness ==
    \E p \in Procs :
        /\ ReturnsAuthResult(p)
        /\ creds[p].failed_login_attempts = 4
        /\ creds[p].locked_until = NULL
        /\ pre[p][1].email_verified_at = NULL
        /\ \E q \in Procs : SignInDone(q) /\ ret[q].err = ErrAccountLocked

\* C31: a SignIn returns ErrEmailNotVerified only when the comparison was made
\* in that call and the supplied password matched the hash read; a caller that
\* supplies a wrong password never gets ErrEmailNotVerified.
ToldUnverified(p) == SignInDone(p) /\ ret[p].err = ErrEmailNotVerified

C31_UnverifiedOnlyAfterMatch ==
    \A p \in Procs :
        /\ ToldUnverified(p)
           => /\ compared[p]
              /\ CompareHashAndPassword(creds[p].password_hash, input[p].Password)
              /\ input[p].Password = RegisteredCreds.password_hash.pw
        /\ (SignInDone(p) /\ input[p].Password = PwWrong)
           => ret[p].err \in {ErrInvalidCredentials, ErrAccountLocked}

C31_Witness ==
    \E p \in Procs : \E q \in Procs :
        /\ ToldUnverified(p)
        /\ SignInDone(q) /\ input[q].Password = PwWrong
        /\ creds[q].email_verified_at = NULL
        /\ ret[q].err = ErrInvalidCredentials

\* C32 (as stated): wrong-password SignIn calls return the same sequence of
\* errors for an email without a user as for the email of a user that starts
\* unlocked: the k-th errors are equal for every k.
BothReturned == SignInDone(1) /\ SignInDone(2)

C32_SameErrorSequence == BothReturned => ret[1].err = ret[2].err

\* C32 (amended): the k-th errors are equal exactly while the user's stored
\* count, read by the call, is below 4 and no lock is running; from the call
\* that brings the count to 5 on, and while the lock runs, the existing user
\* gets ErrAccountLocked where the unknown email gets ErrInvalidCredentials.
C32_SameErrorsBelowThreshold ==
    BothReturned
    => /\ ret[2].err = ErrInvalidCredentials
       /\ IF UnlockedBefore(1) /\ Before(1).failed_login_attempts + 1 < 5
          THEN ret[1].err = ErrInvalidCredentials
          ELSE ret[1].err = ErrAccountLocked

C32_Witness ==
    /\ BothReturned
    /\ Before(1).failed_login_attempts = 4
    /\ ret[1].err = ErrAccountLocked
    /\ ret[2].err = ErrInvalidCredentials

\* C33: the final step of a successful SignIn clears lockedUntil and the count
\* whatever they are by then: a call that passed its lock check before another
\* caller's wrong password locked the account still returns its AuthResult and
\* leaves the account unlocked with count 0.
FinalStep(p) == pc[p] = "SignIn_UpdateLastLogin" /\ pc'[p] = "done"

SuccessClears ==
    \A p \in Procs :
        FinalStep(p)
        => /\ ret'[p].err = Nil
           /\ ret'[p].result.User = user[p]
           /\ auth_credentials'[user[p].id].locked_until = NULL
           /\ auth_credentials'[user[p].id].failed_login_attempts = 0
           /\ auth_credentials'[user[p].id].last_login_at = now

C33_SuccessCancelsConcurrentLock == [][SuccessClears]_vars

\* Caller 2 has set the lock and returned, caller 1 has then finished: the lock
\* is gone although no time has passed.
C33_Witness ==
    /\ ReturnsAuthResult(1)
    /\ creds[1].locked_until = NULL
    /\ SignInDone(2) /\ compared[2] /\ ret[2].err = ErrAccountLocked
    /\ creds[2].failed_login_attempts = 4
    /\ auth_credentials[1].locked_until = NULL
    /\ auth_credentials[1].failed_login_attempts = 0
    /\ auth_credentials[1].last_login_at = now

\* C34: the expiry of a lock does not reset the count: the first SignIn with a
\* wrong password after lockedUntil has passed finds a count of 5 or more,
\* adds one, sets a new lock of 15 minutes from now and returns
\* ErrAccountLocked, so one guess is all that a lockout period allows.
C34_ExpiredLockRelocksAtOnce ==
    \A p \in Procs :
        (SignInDone(p) /\ NonEmptyInput(p) /\ LockExpired(p) /\ WrongPassword(p))
        => /\ Before(p).failed_login_attempts >= 5
           /\ compared[p]
           /\ After(p).failed_login_attempts = Before(p).failed_login_attempts + 1
           /\ After(p).locked_until = now + 15 * 60
           /\ ret[p].err = ErrAccountLocked

C34_Witness ==
    \E p \in Procs :
        /\ SignInDone(p) /\ NonEmptyInput(p) /\ LockExpired(p) /\ WrongPassword(p)
        /\ Before(p).failed_login_attempts = 5
        /\ Before(p).locked_until = 15 * 60
        /\ After(p).failed_login_attempts = 6
        /\ After(p).locked_until = 60 * 60 + 15 * 60

\* C35 (as stated): with SignIn calls that do not overlap and store writes
\* that succeed, in every reachable state a stored count of 5 or more comes
\* with a lockedUntil that is not null.
CountImpliesLock(i) ==
    auth_credentials[i].failed_login_attempts >= 5
    => auth_credentials[i].locked_until # NULL

C35_CountImpliesLock == \A i \in DOMAIN auth_credentials : CountImpliesLock(i)

\* C35 (amended): the same, except in the states where a SignIn for the user
\* has written the incremented count and not yet the lock, which are two
\* separate store calls.
AboutToLock(i) ==
    \E p \in Procs : pc[p] = "SignIn_LockAccount" /\ user[p].id = i

C35_CountImpliesLockBetweenCalls ==
    \A i \in DOMAIN auth_credentials : AboutToLock(i) \/ CountImpliesLock(i)

C35_Witness ==
    \E p \in Procs :
        /\ SignInDone(p) /\ HasAccount(p)
        /\ Before(p).failed_login_attempts = 4
        /\ Before(p).locked_until = NULL
        /\ After(p).failed_login_attempts = 5
        /\ After(p).locked_until # NULL
        /\ ~AboutToLock(Id(p))

\* C36: a SignIn that returns ErrEmailNotVerified writes nothing: the right
\* password does not reset the count, clear lockedUntil or set last-login.
C36_UnverifiedWritesNothing ==
    \A p \in Procs :
        ToldUnverified(p)
        => /\ auth_credentials = pre[p]
           /\ After(p).failed_login_attempts = Before(p).failed_login_attempts
           /\ After(p).locked_until = Before(p).locked_until
           /\ After(p).last_login_at = Before(p).last_login_at
           /\ ret[p].result = NoResult

C36_Witness ==
    \E p \in Procs :
        /\ ToldUnverified(p)
        /\ After(p).failed_login_attempts >= 5
        /\ After(p).locked_until # NULL
        /\ After(p).locked_until <= now
        /\ After(p).last_login_at = NULL

\* C37: two concurrent SignUp calls with the same normalized email never both
\* succeed: both may pass the existence check, but the unique email lets one
\* user be created, and the call that loses returns 'failed to create user',
\* not ErrEmailExists, with no user and no credential of its own.
LostTheInsert(p) == SignUpDone(p) /\ path[p] = "create_error"

AtMostOneWinner ==
    /\ ~(\E p \in Procs : \E q \in Procs :
            /\ p # q
            /\ SignUpDone(p) /\ ret[p].err = Nil
            /\ SignUpDone(q) /\ ret[q].err = Nil)
    /\ Cardinality({i \in UserIds : users[i].email = EmailA}) <= 1
    /\ Cardinality(DOMAIN auth_credentials) <= 1
    /\ \A p \in Procs :
          LostTheInsert(p)
          => /\ ret[p].err = StoreError("failed to create user")
             /\ ret[p].err # ErrEmailExists
             /\ ret[p].result = NoResult
             /\ user[p] = NoUser
             /\ Len(users) = 1

\* The step in which a call loses the insert is its last, and writes nothing.
LoserWritesNothing ==
    \A p \in Procs :
        (pc[p] = "SignUp_Create" /\ pc'[p] = "done")
        => /\ path'[p] = "create_error"
           /\ UNCHANGED <<users, auth_credentials>>

C37_OneSignUpWins == []AtMostOneWinner /\ [][LoserWritesNothing]_vars

\* Both passed the check on the empty table; one created the user and its
\* credential, the other lost the insert.
C37_Witness ==
    \E p \in Procs : \E q \in Procs :
        /\ SignUpDone(p) /\ ret[p].err = Nil
        /\ LostTheInsert(q)
        /\ input[p].Email = EmailARaw /\ input[q].Email = EmailA
        /\ DOMAIN auth_credentials = {ret[p].result.User.id}

\* C38: a user row left without a credential by a failed SignUp stays that
\* way: no step of any operation removes the row or adds the credential, and
\* while it is there every SignUp with its email whose lookup succeeds returns
\* ErrEmailExists and every SignIn with its email, right password or wrong,
\* whose lookups succeed returns ErrInvalidCredentials.
Stuck(i) ==
    /\ i \in UserIds
    /\ users[i].deleted_at = NULL
    /\ i \notin DOMAIN auth_credentials

\* The SignUp that created the row is past its credential insert.
Abandoned(i) ==
    /\ Stuck(i)
    /\ \A p \in Procs : ~(pc[p] = "SignUp_CreateCredentials" /\ user[p].id = i)

StuckStays ==
    \A i \in UserIds :
        Abandoned(i)
        => /\ i \in 1..Len(users')
           /\ users'[i] = users[i]
           /\ i \notin DOMAIN auth_credentials'

\* A completed call for an email whose user the call found without credential.
MetStuck(p) ==
    /\ pc[p] = "done"
    /\ user[p] = NoUser \/ op[p] = "SignIn"
    /\ \E i \in Account(p) : Stuck(i)

StuckOutcomes ==
    \A p \in Procs :
        /\ (MetStuck(p) /\ op[p] = "SignUp" /\ path[p] # "user_error")
           => /\ ret[p].err = ErrEmailExists
              /\ ret[p].result = NoResult
        /\ (MetStuck(p) /\ op[p] = "SignIn" /\ NonEmptyInput(p)
              /\ ~LookupFailed(p))
           => /\ ret[p].err = ErrInvalidCredentials
              /\ ~compared[p]

C38_EmailStuck == []StuckOutcomes /\ [][StuckStays]_vars

C38_Witness ==
    \E p \in Procs :
        /\ MetStuck(p) /\ op[p] = "SignUp"
        /\ ret[p].err = ErrEmailExists
        /\ Len(users) = 1
        /\ DOMAIN auth_credentials = {}

\* C39: the existence check of SignUp does not see soft-deleted users, the
\* unique email of the users table does: a SignUp whose email belongs to a
\* soft-deleted user only passes the check, fails at the insert, returns
\* 'failed to create user' and not ErrEmailExists, and creates nothing.
OnlySoftDeleted(p) ==
    /\ Account(p) # {}
    /\ \A i \in Account(p) : users[i].deleted_at # NULL

C39_SoftDeletedEmailOpaqueError ==
    \A p \in Procs :
        (SignUpDone(p) /\ OnlySoftDeleted(p)
            /\ ~PasswordTooLong(input[p].Password))
        => /\ path[p] = "create_error"
           /\ ret[p].err = StoreError("failed to create user")
           /\ ret[p].err # ErrEmailExists
           /\ ret[p].result = NoResult
           /\ user[p] = NoUser
           /\ Len(users) = 1
           /\ auth_credentials = pre[p]

C39_Witness ==
    \E p \in Procs :
        /\ SignUpDone(p) /\ OnlySoftDeleted(p)
        /\ input[p].Email = EmailARaw
        /\ input[p].Password = PwGood
        /\ ret[p].err = StoreError("failed to create user")
        /\ DOMAIN auth_credentials = {1}

====
